---- MODULE Spec2Model ----
(***************************************************************************)
(* LeadForge backend: the OSM search / Google enrichment pipeline          *)
(* (app/routes_search.py, app/utils.py) and the saved-lead store           *)
(* (app/routes_leads.py, app/models.py).                                   *)
(*                                                                         *)
(* Representation of Python values:                                        *)
(*   - a string is a sequence of one-character strings, so that lower(),   *)
(*     strip(), replace(), split() and join() are computed character by    *)
(*     character; a value that is only ever passed through (a URL, a phone *)
(*     number, a rating, a place id) is a one-symbol sequence.             *)
(*   - None, where a string may stand, is the reserved sequence None; a    *)
(*     string is falsy when it is None or empty (Truthy).                  *)
(*   - an optional record (a dict or None) and an optional number are      *)
(*     sequences of length <= 1: <<>> is None, <<r>> is the value r.       *)
(*   - a list is a sequence.                                               *)
(*   - a coordinate is an integer number of 1/10000 degrees.               *)
(***************************************************************************)
EXTENDS Integers, Sequences, FiniteSets, TLC

None == <<"<None>">>

Truthy(s) == s /= None /\ s /= <<>>

\* Python's `a or b` on strings.
Or(a, b) == IF Truthy(a) THEN a ELSE b

RECURSIVE FilterTruthy(_)
\* filter(None, parts): the truthy parts, in order.
FilterTruthy(parts) ==
    IF parts = <<>> THEN <<>>
    ELSE IF Truthy(Head(parts)) THEN <<Head(parts)>> \o FilterTruthy(Tail(parts))
         ELSE FilterTruthy(Tail(parts))

RECURSIVE Join(_, _)
\* sep.join(parts)
Join(sep, parts) ==
    IF parts = <<>> THEN <<>>
    ELSE IF Len(parts) = 1 THEN parts[1]
         ELSE parts[1] \o sep \o Join(sep, Tail(parts))

CommaSpace == <<",", " ">>

(***************************************************************************)
(* Python string methods, character by character.                          *)
(***************************************************************************)

UpperLetters == <<"A","B","C","D","E","F","G","H","I","J","K","L","M",
                  "N","O","P","Q","R","S","T","U","V","W","X","Y","Z">>
LowerLetters == <<"a","b","c","d","e","f","g","h","i","j","k","l","m",
                  "n","o","p","q","r","s","t","u","v","w","x","y","z">>
Digits == <<"0","1","2","3","4","5","6","7","8","9">>

Range(f) == { f[i] : i \in DOMAIN f }

LowerChar(c) ==
    IF c \in Range(UpperLetters)
    THEN LowerLetters[CHOOSE i \in DOMAIN UpperLetters : UpperLetters[i] = c]
    ELSE c

\* str.lower()
Lower(s) == [i \in DOMAIN s |-> LowerChar(s[i])]

\* str.isalnum on one character
IsAlnum(c) == c \in Range(UpperLetters) \cup Range(LowerLetters) \cup Range(Digits)

IsSpace(c) == c \in {" ", "\t", "\n"}

RECURSIVE LStrip(_)
LStrip(s) == IF s /= <<>> /\ IsSpace(Head(s)) THEN LStrip(Tail(s)) ELSE s

RECURSIVE RStrip(_)
RStrip(s) ==
    IF s /= <<>> /\ IsSpace(s[Len(s)]) THEN RStrip(SubSeq(s, 1, Len(s) - 1)) ELSE s

\* str.strip()
Strip(s) == RStrip(LStrip(s))

RECURSIVE Replace(_, _, _)
\* str.replace(a, b) for a one-character a and a string b
Replace(s, a, b) ==
    IF s = <<>> THEN <<>>
    ELSE (IF Head(s) = a THEN b ELSE <<Head(s)>>) \o Replace(Tail(s), a, b)

RECURSIVE FilterAlnum(_)
\* ''.join(filter(str.isalnum, s))
FilterAlnum(s) ==
    IF s = <<>> THEN <<>>
    ELSE (IF IsAlnum(Head(s)) THEN <<Head(s)>> ELSE <<>>) \o FilterAlnum(Tail(s))

RECURSIVE BeforeFirst(_, _)
\* s.split(c)[0]
BeforeFirst(s, c) ==
    IF s = <<>> \/ Head(s) = c THEN <<>>
    ELSE <<Head(s)>> \o BeforeFirst(Tail(s), c)

(***************************************************************************)
(* Category Resolver: routes_search.py TAG_MAPPING and lines 186-197.      *)
(* A condition is the pair <<key, value>>; every entry of the table and    *)
(* the name fallback have two components.                                  *)
(***************************************************************************)

TAG_MAPPING == {
    [key |-> <<"r","e","s","t","a","u","r","a","n","t","s">>,
     conditions |-> <<
          << <<"amenity">>, <<"restaurant">> >> >>],
    [key |-> <<"r","e","s","t","a","u","r","a","n","t">>,
     conditions |-> <<
          << <<"amenity">>, <<"restaurant">> >> >>],
    [key |-> <<"f","o","o","d">>,
     conditions |-> <<
          << <<"amenity">>, <<"restaurant">> >>,
          << <<"amenity">>, <<"cafe">> >>,
          << <<"amenity">>, <<"fast_food">> >>,
          << <<"amenity">>, <<"food_court">> >>,
          << <<"shop">>, <<"bakery">> >>,
          << <<"shop">>, <<"deli">> >>,
          << <<"shop">>, <<"ice_cream">> >>,
          << <<"shop">>, <<"pastry">> >> >>],
    [key |-> <<"c","a","f","e","s">>,
     conditions |-> <<
          << <<"amenity">>, <<"cafe">> >>,
          << <<"shop">>, <<"coffee">> >> >>],
    [key |-> <<"c","a","f","e">>,
     conditions |-> <<
          << <<"amenity">>, <<"cafe">> >>,
          << <<"shop">>, <<"coffee">> >> >>],
    [key |-> <<"b","a","r","s">>,
     conditions |-> <<
          << <<"amenity">>, <<"bar">> >>,
          << <<"amenity">>, <<"pub">> >> >>],
    [key |-> <<"b","a","r">>,
     conditions |-> <<
          << <<"amenity">>, <<"bar">> >>,
          << <<"amenity">>, <<"pub">> >> >>],
    [key |-> <<"p","u","b","s">>,
     conditions |-> <<
          << <<"amenity">>, <<"pub">> >>,
          << <<"amenity">>, <<"bar">> >> >>],
    [key |-> <<"p","u","b">>,
     conditions |-> <<
          << <<"amenity">>, <<"pub">> >>,
          << <<"amenity">>, <<"bar">> >> >>],
    [key |-> <<"n","i","g","h","t","c","l","u","b","s">>,
     conditions |-> <<
          << <<"amenity">>, <<"nightclub">> >>,
          << <<"leisure">>, <<"dance">> >> >>],
    [key |-> <<"n","i","g","h","t","c","l","u","b">>,
     conditions |-> <<
          << <<"amenity">>, <<"nightclub">> >>,
          << <<"leisure">>, <<"dance">> >> >>],
    [key |-> <<"b","r","e","w","e","r","i","e","s">>,
     conditions |-> <<
          << <<"craft">>, <<"brewery">> >>,
          << <<"microbrewery">>, <<"yes">> >>,
          << <<"industrial">>, <<"brewery">> >> >>],
    [key |-> <<"b","r","e","w","e","r","y">>,
     conditions |-> <<
          << <<"craft">>, <<"brewery">> >>,
          << <<"microbrewery">>, <<"yes">> >>,
          << <<"industrial">>, <<"brewery">> >> >>],
    [key |-> <<"w","i","n","e","r","i","e","s">>,
     conditions |-> <<
          << <<"craft">>, <<"winery">> >>,
          << <<"shop">>, <<"wine">> >>,
          << <<"tourism">>, <<"winery">> >> >>],
    [key |-> <<"l","i","q","u","o","r"," ","s","t","o","r","e","s">>,
     conditions |-> <<
          << <<"shop">>, <<"alcohol">> >>,
          << <<"shop">>, <<"wine">> >>,
          << <<"shop">>, <<"beer">> >> >>],
    [key |-> <<"f","a","s","t"," ","f","o","o","d">>,
     conditions |-> <<
          << <<"amenity">>, <<"fast_food">> >> >>],
    [key |-> <<"b","a","k","e","r","i","e","s">>,
     conditions |-> <<
          << <<"shop">>, <<"bakery">> >> >>],
    [key |-> <<"i","c","e"," ","c","r","e","a","m"," ","s","h","o","p","s">>,
     conditions |-> <<
          << <<"shop">>, <<"ice_cream">> >>,
          << <<"amenity">>, <<"ice_cream">> >> >>],
    [key |-> <<"p","i","z","z","a"," ","p","l","a","c","e","s">>,
     conditions |-> <<
          << <<"amenity">>, <<"restaurant">> >>,
          << <<"cuisine">>, <<"pizza">> >> >>],
    [key |-> <<"s","h","o","p","s">>,
     conditions |-> <<
          << <<"shop">>, <<"*">> >> >>],
    [key |-> <<"s","u","p","e","r","m","a","r","k","e","t","s">>,
     conditions |-> <<
          << <<"shop">>, <<"supermarket">> >>,
          << <<"shop">>, <<"grocery">> >> >>],
    [key |-> <<"g","r","o","c","e","r","y"," ","s","t","o","r","e","s">>,
     conditions |-> <<
          << <<"shop">>, <<"grocery">> >>,
          << <<"shop">>, <<"supermarket">> >>,
          << <<"shop">>, <<"convenience">> >> >>],
    [key |-> <<"c","o","n","v","e","n","i","e","n","c","e"," ","s","t","o","r","e","s">>,
     conditions |-> <<
          << <<"shop">>, <<"convenience">> >> >>],
    [key |-> <<"c","l","o","t","h","i","n","g"," ","s","t","o","r","e","s">>,
     conditions |-> <<
          << <<"shop">>, <<"clothes">> >>,
          << <<"shop">>, <<"fashion">> >>,
          << <<"shop">>, <<"boutique">> >>,
          << <<"shop">>, <<"apparel">> >> >>],
    [key |-> <<"s","h","o","e"," ","s","t","o","r","e","s">>,
     conditions |-> <<
          << <<"shop">>, <<"shoes">> >> >>],
    [key |-> <<"b","o","o","k","s","t","o","r","e","s">>,
     conditions |-> <<
          << <<"shop">>, <<"books">> >> >>],
    [key |-> <<"e","l","e","c","t","r","o","n","i","c","s"," ","s","t","o","r","e","s">>,
     conditions |-> <<
          << <<"shop">>, <<"electronics">> >>,
          << <<"shop">>, <<"computer">> >>,
          << <<"shop">>, <<"mobile_phone">> >> >>],
    [key |-> <<"h","a","r","d","w","a","r","e"," ","s","t","o","r","e","s">>,
     conditions |-> <<
          << <<"shop">>, <<"hardware">> >>,
          << <<"shop">>, <<"doityourself">> >> >>],
    [key |-> <<"p","h","a","r","m","a","c","i","e","s">>,
     conditions |-> <<
          << <<"amenity">>, <<"pharmacy">> >>,
          << <<"shop">>, <<"chemist">> >> >>],
    [key |-> <<"f","l","o","r","i","s","t","s">>,
     conditions |-> <<
          << <<"shop">>, <<"florist">> >> >>],
    [key |-> <<"g","i","f","t"," ","s","h","o","p","s">>,
     conditions |-> <<
          << <<"shop">>, <<"gift">> >>,
          << <<"shop">>, <<"souvenir">> >> >>],
    [key |-> <<"m","a","l","l","s">>,
     conditions |-> <<
          << <<"shop">>, <<"mall">> >> >>],
    [key |-> <<"d","e","p","a","r","t","m","e","n","t"," ","s","t","o","r","e","s">>,
     conditions |-> <<
          << <<"shop">>, <<"department_store">> >> >>],
    [key |-> <<"f","u","r","n","i","t","u","r","e"," ","s","t","o","r","e","s">>,
     conditions |-> <<
          << <<"shop">>, <<"furniture">> >> >>],
    [key |-> <<"j","e","w","e","l","r","y"," ","s","t","o","r","e","s">>,
     conditions |-> <<
          << <<"shop">>, <<"jewelry">> >> >>],
    [key |-> <<"t","o","y"," ","s","t","o","r","e","s">>,
     conditions |-> <<
          << <<"shop">>, <<"toys">> >> >>],
    [key |-> <<"p","e","t"," ","s","t","o","r","e","s">>,
     conditions |-> <<
          << <<"shop">>, <<"pet">> >> >>],
    [key |-> <<"b","i","k","e"," ","s","h","o","p","s">>,
     conditions |-> <<
          << <<"shop">>, <<"bicycle">> >> >>],
    [key |-> <<"c","a","r"," ","d","e","a","l","e","r","s","h","i","p","s">>,
     conditions |-> <<
          << <<"shop">>, <<"car">> >> >>],
    [key |-> <<"o","p","t","i","c","i","a","n","s">>,
     conditions |-> <<
          << <<"shop">>, <<"optician">> >> >>],
    [key |-> <<"h","o","t","e","l","s">>,
     conditions |-> <<
          << <<"tourism">>, <<"hotel">> >> >>],
    [key |-> <<"h","o","t","e","l">>,
     conditions |-> <<
          << <<"tourism">>, <<"hotel">> >> >>],
    [key |-> <<"m","o","t","e","l","s">>,
     conditions |-> <<
          << <<"tourism">>, <<"motel">> >> >>],
    [key |-> <<"h","o","s","t","e","l","s">>,
     conditions |-> <<
          << <<"tourism">>, <<"hostel">> >> >>],
    [key |-> <<"g","u","e","s","t","h","o","u","s","e","s">>,
     conditions |-> <<
          << <<"tourism">>, <<"guest_house">> >>,
          << <<"tourism">>, <<"bed_and_breakfast">> >> >>],
    [key |-> <<"a","p","a","r","t","m","e","n","t","s">>,
     conditions |-> <<
          << <<"tourism">>, <<"apartment">> >> >>],
    [key |-> <<"s","a","l","o","n","s">>,
     conditions |-> <<
          << <<"shop">>, <<"hairdresser">> >>,
          << <<"shop">>, <<"beauty">> >> >>],
    [key |-> <<"h","a","i","r"," ","s","a","l","o","n","s">>,
     conditions |-> <<
          << <<"shop">>, <<"hairdresser">> >> >>],
    [key |-> <<"b","a","r","b","e","r","s","h","o","p","s">>,
     conditions |-> <<
          << <<"shop">>, <<"barber">> >> >>],
    [key |-> <<"b","e","a","u","t","y"," ","s","a","l","o","n","s">>,
     conditions |-> <<
          << <<"shop">>, <<"beauty">> >>,
          << <<"shop">>, <<"nails">> >> >>],
    [key |-> <<"s","p","a","s">>,
     conditions |-> <<
          << <<"leisure">>, <<"spa">> >>,
          << <<"shop">>, <<"spa">> >> >>],
    [key |-> <<"l","a","u","n","d","r","o","m","a","t","s">>,
     conditions |-> <<
          << <<"shop">>, <<"laundry">> >>,
          << <<"shop">>, <<"launderette">> >> >>],
    [key |-> <<"d","r","y"," ","c","l","e","a","n","i","n","g">>,
     conditions |-> <<
          << <<"shop">>, <<"dry_cleaning">> >> >>],
    [key |-> <<"b","a","n","k","s">>,
     conditions |-> <<
          << <<"amenity">>, <<"bank">> >> >>],
    [key |-> <<"a","t","m","s">>,
     conditions |-> <<
          << <<"amenity">>, <<"atm">> >> >>],
    [key |-> <<"p","o","s","t"," ","o","f","f","i","c","e","s">>,
     conditions |-> <<
          << <<"amenity">>, <<"post_office">> >> >>],
    [key |-> <<"c","a","r"," ","r","e","p","a","i","r">>,
     conditions |-> <<
          << <<"shop">>, <<"car_repair">> >>,
          << <<"shop">>, <<"car_parts">> >> >>],
    [key |-> <<"g","a","s"," ","s","t","a","t","i","o","n","s">>,
     conditions |-> <<
          << <<"amenity">>, <<"fuel">> >> >>],
    [key |-> <<"r","e","a","l"," ","e","s","t","a","t","e"," ","a","g","e","n","c","i","e","s">>,
     conditions |-> <<
          << <<"office">>, <<"estate_agent">> >> >>],
    [key |-> <<"t","r","a","v","e","l"," ","a","g","e","n","c","i","e","s">>,
     conditions |-> <<
          << <<"office">>, <<"travel_agent">> >> >>],
    [key |-> <<"c","a","r"," ","w","a","s","h">>,
     conditions |-> <<
          << <<"amenity">>, <<"car_wash">> >> >>],
    [key |-> <<"p","a","r","k","i","n","g">>,
     conditions |-> <<
          << <<"amenity">>, <<"parking">> >> >>],
    [key |-> <<"l","i","b","r","a","r","i","e","s">>,
     conditions |-> <<
          << <<"amenity">>, <<"library">> >> >>],
    [key |-> <<"g","y","m","s">>,
     conditions |-> <<
          << <<"leisure">>, <<"fitness_centre">> >>,
          << <<"leisure">>, <<"sports_centre">> >> >>],
    [key |-> <<"f","i","t","n","e","s","s"," ","c","e","n","t","e","r","s">>,
     conditions |-> <<
          << <<"leisure">>, <<"fitness_centre">> >>,
          << <<"leisure">>, <<"sports_centre">> >> >>],
    [key |-> <<"y","o","g","a"," ","s","t","u","d","i","o","s">>,
     conditions |-> <<
          << <<"leisure">>, <<"fitness_centre">> >>,
          << <<"sport">>, <<"yoga">> >>,
          << <<"leisure">>, <<"yoga">> >> >>],
    [key |-> <<"d","o","c","t","o","r","s">>,
     conditions |-> <<
          << <<"amenity">>, <<"doctors">> >>,
          << <<"amenity">>, <<"clinic">> >>,
          << <<"healthcare">>, <<"doctor">> >> >>],
    [key |-> <<"d","e","n","t","i","s","t","s">>,
     conditions |-> <<
          << <<"amenity">>, <<"dentist">> >>,
          << <<"healthcare">>, <<"dentist">> >> >>],
    [key |-> <<"h","o","s","p","i","t","a","l","s">>,
     conditions |-> <<
          << <<"amenity">>, <<"hospital">> >>,
          << <<"healthcare">>, <<"hospital">> >> >>],
    [key |-> <<"c","l","i","n","i","c","s">>,
     conditions |-> <<
          << <<"amenity">>, <<"clinic">> >>,
          << <<"healthcare">>, <<"clinic">> >> >>],
    [key |-> <<"v","e","t","e","r","i","n","a","r","i","a","n","s">>,
     conditions |-> <<
          << <<"amenity">>, <<"veterinary">> >>,
          << <<"shop">>, <<"pet">> >>,
          << <<"healthcare">>, <<"veterinary">> >> >>],
    [key |-> <<"c","i","n","e","m","a","s">>,
     conditions |-> <<
          << <<"amenity">>, <<"cinema">> >> >>],
    [key |-> <<"m","o","v","i","e"," ","t","h","e","a","t","e","r","s">>,
     conditions |-> <<
          << <<"amenity">>, <<"cinema">> >> >>],
    [key |-> <<"t","h","e","a","t","e","r","s">>,
     conditions |-> <<
          << <<"amenity">>, <<"theatre">> >> >>],
    [key |-> <<"l","i","v","e"," ","m","u","s","i","c"," ","v","e","n","u","e","s">>,
     conditions |-> <<
          << <<"leisure">>, <<"live_music_venue">> >>,
          << <<"amenity">>, <<"music_venue">> >> >>],
    [key |-> <<"m","u","s","e","u","m","s">>,
     conditions |-> <<
          << <<"tourism">>, <<"museum">> >> >>],
    [key |-> <<"a","r","t"," ","g","a","l","l","e","r","i","e","s">>,
     conditions |-> <<
          << <<"tourism">>, <<"gallery">> >>,
          << <<"shop">>, <<"art">> >> >>],
    [key |-> <<"p","a","r","k","s">>,
     conditions |-> <<
          << <<"leisure">>, <<"park">> >>,
          << <<"leisure">>, <<"garden">> >>,
          << <<"boundary">>, <<"national_park">> >>,
          << <<"boundary">>, <<"protected_area">> >> >>],
    [key |-> <<"p","l","a","y","g","r","o","u","n","d","s">>,
     conditions |-> <<
          << <<"leisure">>, <<"playground">> >> >>],
    [key |-> <<"b","o","w","l","i","n","g"," ","a","l","l","e","y","s">>,
     conditions |-> <<
          << <<"leisure">>, <<"bowling_alley">> >> >>],
    [key |-> <<"a","r","c","a","d","e","s">>,
     conditions |-> <<
          << <<"leisure">>, <<"amusement_arcade">> >> >>],
    [key |-> <<"z","o","o","s">>,
     conditions |-> <<
          << <<"tourism">>, <<"zoo">> >> >>],
    [key |-> <<"a","q","u","a","r","i","u","m","s">>,
     conditions |-> <<
          << <<"tourism">>, <<"aquarium">> >> >>],
    [key |-> <<"s","t","a","d","i","u","m","s">>,
     conditions |-> <<
          << <<"leisure">>, <<"stadium">> >>,
          << <<"sport">>, <<"stadium">> >> >>],
    [key |-> <<"b","e","a","c","h","e","s">>,
     conditions |-> <<
          << <<"natural">>, <<"beach">> >>,
          << <<"leisure">>, <<"beach_resort">> >> >>],
    [key |-> <<"a","i","r","p","o","r","t","s">>,
     conditions |-> <<
          << <<"aeroway">>, <<"aerodrome">> >>,
          << <<"amenity">>, <<"airport">> >> >>],
    [key |-> <<"t","r","a","i","n"," ","s","t","a","t","i","o","n","s">>,
     conditions |-> <<
          << <<"railway">>, <<"station">> >>,
          << <<"public_transport">>, <<"station">> >> >>],
    [key |-> <<"b","u","s"," ","s","t","o","p","s">>,
     conditions |-> <<
          << <<"highway">>, <<"bus_stop">> >>,
          << <<"public_transport">>, <<"platform">> >> >>],
    [key |-> <<"t","a","x","i"," ","s","t","a","n","d","s">>,
     conditions |-> <<
          << <<"amenity">>, <<"taxi">> >> >>],
    [key |-> <<"f","e","r","r","y"," ","t","e","r","m","i","n","a","l","s">>,
     conditions |-> <<
          << <<"amenity">>, <<"ferry_terminal">> >> >>],
    [key |-> <<>>,
     conditions |-> <<
          << <<"amenity">>, <<"restaurant">> >>,
          << <<"shop">>, <<"*">> >> >>]
}

\* The mutant of TagMappingGet: the table has no entry for the empty term.
tag_mapping_without_default(query_term) ==
    IF query_term /= <<>> /\ \E e \in TAG_MAPPING : e.key = query_term
    THEN (CHOOSE e \in TAG_MAPPING : e.key = query_term).conditions
    ELSE <<>>

\* TAG_MAPPING.get(query_term): the entry's conditions, or <<>> for None.
TagMappingGet(query_term) ==
    IF \E e \in TAG_MAPPING : e.key = query_term
    THEN (CHOOSE e \in TAG_MAPPING : e.key = query_term).conditions
    ELSE <<>>

\* A mutant of ResolveConditions: an unmapped term gets the default entry.
resolve_unmapped_to_default(query_term) ==
    IF TagMappingGet(query_term) /= <<>> THEN TagMappingGet(query_term)
    ELSE TagMappingGet(<<>>)

\* A mutant of ResolveConditions: no name search for an unmapped term.
resolve_without_fallback(query_term) == TagMappingGet(query_term)

\* Lines 186-197: the table entry; without one, a name search for a non-empty
\* term and no condition (BAD_REQUEST) for an empty one.
ResolveConditions(query_term) ==
    LET osm_tag_conditions_list == TagMappingGet(query_term)
    IN IF osm_tag_conditions_list /= <<>> THEN osm_tag_conditions_list
       ELSE IF query_term /= <<>> THEN << << <<"name">>, query_term >> >>
       ELSE <<>>

(***************************************************************************)
(* Result Normalizer: routes_search.py normalize_osm_result.               *)
(***************************************************************************)

\* tags.get("name", "Unknown Venue"): the default is used only when the key
\* is absent; a present empty value is returned as it is.
UnknownVenue == <<"U","n","k","n","o","w","n"," ","V","e","n","u","e">>

TagNameOrDefault(tags) == IF tags.name = None THEN UnknownVenue ELSE tags.name

\* `google_enrichment.get(k) if google_enrichment else None` for string fields.
GoogleField(google_enrichment, k) ==
    IF google_enrichment /= <<>> THEN google_enrichment[1][k] ELSE None

\* Lines 131-135: ", ".join(filter(None, parts)) or None.
osm_address(tags) ==
    LET joined == Join(CommaSpace,
                       FilterTruthy(<<tags.addr_housenumber, tags.addr_street,
                                      tags.addr_city, tags.addr_state,
                                      tags.addr_postcode>>))
    IN IF joined = <<>> THEN None ELSE joined

osm_categories(tags) ==
    FilterTruthy(<<tags.amenity, tags.shop, tags.leisure, tags.craft>>)

final_types_array(tags, google_enrichment) ==
    IF google_enrichment /= <<>> /\ google_enrichment[1].types_google /= <<>>
    THEN google_enrichment[1].types_google
    ELSE osm_categories(tags)

\* Opening hours are a string in the OSM tag and a list of lines
\* (weekday_text) in the enrichment record.
NoHours == [kind |-> "none", lines |-> <<>>]
StrHours(s) == IF s = None THEN NoHours ELSE [kind |-> "str", lines |-> <<s>>]
ListHours(l) == [kind |-> "list", lines |-> l]

\* Line 160: a conditional expression, not an `or`: with an enrichment record
\* the tag is never consulted.
opening_hours_of(tags, google_enrichment) ==
    IF google_enrichment /= <<>> THEN google_enrichment[1].opening_hours_google
    ELSE StrHours(tags.opening_hours)

\* Lines 146-150: the element's own lat/lon, replaced by the centre's for a
\* non-node element that carries a centre.
latitude_of(osm_element) ==
    IF osm_element.type /= "node" /\ osm_element.center /= <<>>
    THEN <<osm_element.center[1].lat>> ELSE osm_element.lat

longitude_of(osm_element) ==
    IF osm_element.type /= "node" /\ osm_element.center /= <<>>
    THEN <<osm_element.center[1].lon>> ELSE osm_element.lon

\* The mutant of normalized_name: no placeholder.
normalized_name_no_default(tags, google_enrichment) ==
    Or(GoogleField(google_enrichment, "name_google"), tags.name)

normalized_name(tags, google_enrichment) ==
    Or(GoogleField(google_enrichment, "name_google"), TagNameOrDefault(tags))

normalize_osm_result(osm_element, google_enrichment) ==
    LET tags == osm_element.tags
    IN [google_place_id   |-> GoogleField(google_enrichment, "google_place_id"),
        osm_id            |-> <<osm_element.type, osm_element.id>>,
        name              |-> normalized_name(tags, google_enrichment),
        address           |-> Or(GoogleField(google_enrichment, "address_google"),
                                 osm_address(tags)),
        website           |-> Or(GoogleField(google_enrichment, "website_google"),
                                 Or(tags.website, tags.contact_website)),
        phone_number      |-> Or(GoogleField(google_enrichment, "phone_number_google"),
                                 Or(tags.phone, tags.contact_phone)),
        photo_url         |-> GoogleField(google_enrichment, "photo_url_google"),
        types             |-> final_types_array(tags, google_enrichment),
        rating            |-> GoogleField(google_enrichment, "rating_google"),
        user_ratings_total |-> GoogleField(google_enrichment, "user_ratings_total_google"),
        business_status   |-> GoogleField(google_enrichment, "business_status_google"),
        opening_hours     |-> opening_hours_of(tags, google_enrichment),
        google_maps_url   |-> GoogleField(google_enrichment, "google_maps_url"),
        price_level       |-> GoogleField(google_enrichment, "price_level_google"),
        latitude          |-> latitude_of(osm_element),
        longitude         |-> longitude_of(osm_element)]

(***************************************************************************)
(* Ranker: routes_search.py calculate_completeness_score.                  *)
(***************************************************************************)

calculate_completeness_score(lead) ==
      (IF Truthy(lead.name) /\ lead.name /= UnknownVenue THEN 5 ELSE 0)
    + (IF Truthy(lead.address) THEN 3 ELSE 0)
    + (IF Truthy(lead.phone_number) THEN 2 ELSE 0)
    + (IF Truthy(lead.website) THEN 2 ELSE 0)

(***************************************************************************)
(* The shared cache (the Flask-Caching object utils.py imports): get and   *)
(* set-with-TTL, last write wins.  A namespace of the cache is a set of    *)
(* entries [key, value, expires]; an entry is live while now < expires.    *)
(***************************************************************************)

FIND_PLACE_CACHE_TIMEOUT == 3600 * 24
PLACE_DETAILS_CACHE_TIMEOUT == 3600 * 6
NOMINATIM_CACHE_TIMEOUT == 3600 * 24 * 7
NEGATIVE_CACHE_TIMEOUT == 300

\* cache.get(key): <<value>> for a live entry, <<>> (None) otherwise.
CacheGet(entries, key, t) ==
    IF \E e \in entries : e.key = key /\ t < e.expires
    THEN <<(CHOOSE e \in entries : e.key = key /\ t < e.expires).value>>
    ELSE <<>>

\* cache.set(key, value, timeout=timeout)
CacheSet(entries, key, value, timeout, t) ==
    { e \in entries : e.key /= key }
        \cup {[key |-> key, value |-> value, expires |-> t + timeout]}

EmptyCache == [nominatim |-> {}, gfind |-> {}, gdetails |-> {}]

(***************************************************************************)
(* Geocoder: utils.py get_coordinates_for_city.                            *)
(* A Nominatim response is [kind, items]: kind "ok" carries the decoded    *)
(* JSON list, the other kinds are the failures the code catches.           *)
(***************************************************************************)

\* The mutant of nominatim_cache_key: the city name as it was given.
nominatim_cache_key_raw(city_name) == <<"nominatim_coords_v2:">> \o city_name

\* Line 20-21: the cache key.
nominatim_cache_key(city_name) ==
    <<"nominatim_coords_v2:">> \o FilterAlnum(Lower(city_name))

RECURSIVE DigitsValue(_)
\* The value of a string of decimal digits.
DigitsValue(s) ==
    IF s = <<>> THEN 0
    ELSE 10 * DigitsValue(SubSeq(s, 1, Len(s) - 1))
         + (CHOOSE d \in 0..9 : Digits[d + 1] = s[Len(s)])

AllDigits(s) == s /= <<>> /\ \A i \in DOMAIN s : s[i] \in Range(Digits)

\* float(x) for the coordinate strings of the model: an optional sign, digits,
\* a point and four decimals give <<the number of 1/10000 degrees>>; None and
\* every other string raise (<<>>).
ParseCoordinate(x) ==
    LET body == IF x /= <<>> /\ Head(x) = "-" THEN Tail(x) ELSE x
        n == Len(body)
    IN IF x /= None /\ n >= 6 /\ body[n - 4] = "."
          /\ AllDigits(SubSeq(body, 1, n - 5)) /\ AllDigits(SubSeq(body, n - 3, n))
       THEN LET v == 10000 * DigitsValue(SubSeq(body, 1, n - 5))
                     + DigitsValue(SubSeq(body, n - 3, n))
            IN <<IF Head(x) = "-" THEN 0 - v ELSE v>>
       ELSE <<>>

\* The mutant of bbox_overpass_coords_only: the geocoder's order is kept.
bbox_not_reordered(bbox_nominatim) ==
    bbox_nominatim[1] \o <<",">> \o bbox_nominatim[2] \o <<",">>
        \o bbox_nominatim[3] \o <<",">> \o bbox_nominatim[4]

\* Line 51: (south, north, west, east) to "south,west,north,east".
bbox_overpass_coords_only(bbox_nominatim) ==
    bbox_nominatim[1] \o <<",">> \o bbox_nominatim[3] \o <<",">>
        \o bbox_nominatim[2] \o <<",">> \o bbox_nominatim[4]

\* The mutant of NominatimResult: whatever the answer, the whole world.
nominatim_result_world(resp) ==
    <<[latitude |-> 0, longitude |-> 0,
       bounding_box_str |-> <<"-90", ",", "-180", ",", "90", ",", "180">>,
       display_name |-> None]>>

\* Lines 40-80: the result of the upstream answer `resp`: <<Location>> or <<>>.
NominatimResult(resp) ==
    IF resp.kind /= "ok" \/ resp.items = <<>> THEN <<>>
    ELSE LET location_data_item == resp.items[1]
             bbox_nominatim == location_data_item.boundingbox
         IN IF Len(bbox_nominatim) /= 4 THEN <<>>
            ELSE IF ParseCoordinate(location_data_item.lat) = <<>>
                    \/ ParseCoordinate(location_data_item.lon) = <<>>
                 THEN <<>>
                 ELSE <<[latitude |-> ParseCoordinate(location_data_item.lat)[1],
                         longitude |-> ParseCoordinate(location_data_item.lon)[1],
                         bounding_box_str |-> bbox_overpass_coords_only(bbox_nominatim),
                         display_name |-> location_data_item.display_name]>>

\* The call as a whole: [result, entries (the nominatim namespace afterwards),
\* requested (whether the upstream was asked)].
get_coordinates_for_city(entries, use_caching, t, city_name, resp) ==
    LET key == nominatim_cache_key(city_name)
        cached_data_dict == IF use_caching THEN CacheGet(entries, key, t) ELSE <<>>
        coordinates_result_dict == NominatimResult(resp)
    IN IF cached_data_dict /= <<>>
       THEN [result |-> cached_data_dict, entries |-> entries, requested |-> FALSE]
       ELSE [result |-> coordinates_result_dict,
             entries |-> IF coordinates_result_dict /= <<>> /\ use_caching
                         THEN CacheSet(entries, key, coordinates_result_dict[1],
                                       NOMINATIM_CACHE_TIMEOUT, t)
                         ELSE entries,
             requested |-> TRUE]

(***************************************************************************)
(* Place Source Client: utils.py fetch_osm_data.                           *)
(***************************************************************************)

OVERPASS_TIMEOUT == 30

osm_object_types == <<"node", "way", "relation">>

\* Lines 104-106: the clause of one object type and one two-part condition.
query_clause(obj_type, condition, bounding_box_str) ==
    IF condition[2] = <<"*">>
    THEN <<obj_type, "[\"">> \o condition[1] \o <<"\"](">>
             \o bounding_box_str \o <<");">>
    ELSE <<obj_type, "[\"">> \o condition[1] \o <<"\"=\"">> \o condition[2]
             \o <<"\"](">> \o bounding_box_str \o <<");">>

RECURSIVE ClausesOf(_, _, _)
\* The inner loop of lines 97-108 for one object type.
ClausesOf(obj_type, tag_conditions_list, bounding_box_str) ==
    IF tag_conditions_list = <<>> THEN <<>>
    ELSE query_clause(obj_type, Head(tag_conditions_list), bounding_box_str)
         \o ClausesOf(obj_type, Tail(tag_conditions_list), bounding_box_str)

\* Lines 96-112: the Overpass query text.
overpass_query(tag_conditions_list, bounding_box_str, limit) ==
    <<"[out:json][timeout:", ToString(OVERPASS_TIMEOUT), "];(">>
    \o ClausesOf(osm_object_types[1], tag_conditions_list, bounding_box_str)
    \o ClausesOf(osm_object_types[2], tag_conditions_list, bounding_box_str)
    \o ClausesOf(osm_object_types[3], tag_conditions_list, bounding_box_str)
    \o <<");out center ", ToString(limit), ";">>

\* The mutant of caught_failure_result: a caught failure returns None.
caught_failure_returns_none(resp) == <<>>

\* Line 127: what the function returns after any of the except clauses of
\* lines 123-126, <<list>> for a list.
caught_failure_result(resp) == << <<>> >>

\* The call as a whole: [elements (<<list>>, or <<>> for None), requested,
\* query].  An Overpass response is [kind, elements]; kind "ok" is a JSON
\* object with a list of elements, kind "null_elements" a JSON object whose
\* "elements" is null (line 120 returns it as it is), and every other kind
\* raises inside the try block of lines 117-122.
fetch_osm_data(tag_conditions_list, bounding_box_str, limit, resp) ==
    IF tag_conditions_list = <<>>
    THEN [elements |-> << <<>> >>, requested |-> FALSE, query |-> <<>>]
    ELSE [elements |-> IF resp.kind = "ok" THEN <<resp.elements>>
                       ELSE IF resp.kind = "null_elements" THEN <<>>
                       ELSE caught_failure_result(resp),
          requested |-> TRUE,
          query |-> overpass_query(tag_conditions_list, bounding_box_str, limit)]

(***************************************************************************)
(* Enrichment Client, record building: utils.py lines 212-231.             *)
(***************************************************************************)

PhotoUrlPrefix == <<"https://maps.googleapis.com/maps/api/place/photo?maxwidth=800&photoreference=">>

\* Lines 213-217: the first photo's reference put into the URL template.
photo_url_of(result, api_key) ==
    IF result.photos /= <<>> /\ Truthy(result.photos[1])
    THEN PhotoUrlPrefix \o result.photos[1] \o <<"&key=">> \o api_key
    ELSE None

\* result.get("formatted_address", result.get("vicinity")): the fallback is
\* used only when the key is absent.
address_google_of(result) ==
    IF result.formatted_address = None THEN result.vicinity
    ELSE result.formatted_address

processed_details(result, api_key) ==
    [google_place_id           |-> result.place_id,
     name_google               |-> result.name,
     address_google            |-> address_google_of(result),
     phone_number_google       |-> result.international_phone_number,
     website_google            |-> result.website,
     rating_google             |-> result.rating,
     user_ratings_total_google |-> result.user_ratings_total,
     opening_hours_google      |-> result.weekday_text,
     photo_url_google          |-> photo_url_of(result, api_key),
     google_maps_url           |-> result.url,
     business_status_google    |-> result.business_status,
     types_google              |-> result.types,
     price_level_google        |-> result.price_level,
     utc_offset_google         |-> result.utc_offset]

(***************************************************************************)
(* Enrichment Client: utils.py enrich_with_google_places.                  *)
(* A find-place response is [kind, status, candidates] (the place ids of   *)
(* the candidates, None for a candidate without one); a place-details      *)
(* response is [kind, status, result].  kind "exception" is a network or   *)
(* HTTP error or an undecodable body, which the code catches.              *)
(***************************************************************************)

\* round(x, 3) of a coordinate, in 1/1000 degrees (the coordinates of the
\* model are never exactly halfway).
Round3(x) == (x + 5) \div 10

\* Lines 151-152: str(round(x, 3)) if x is not None else "none".
coord_key_part(x) ==
    IF x /= <<>> THEN <<ToString(Round3(x[1]))>> ELSE <<"n","o","n","e">>

\* Lines 148-154: the parts that are not empty, joined by ":".
find_place_cache_key(business_name, address, latitude, longitude) ==
    LET find_place_cache_key_parts ==
            << <<"gfind_pid_v2">>,
               Replace(Strip(Lower(Or(business_name, <<>>))), " ", <<"_">>),
               Replace(Replace(Strip(Lower(Or(address, <<>>))), " ", <<"_">>), ",", <<>>),
               coord_key_part(latitude),
               coord_key_part(longitude) >>
    IN Join(<<":">>, SelectSeq(find_place_cache_key_parts, LAMBDA part : part /= <<>>))

\* Line 190.
details_cache_key(place_id) == <<"gdetails_v2:">> \o place_id

\* Lines 165-166: the text query.
input_query(business_name, address) ==
    IF Truthy(address) THEN business_name \o CommaSpace \o address ELSE business_name

\* Lines 175-176: the first candidate's place id of an OK answer, else None.
found_place_id(find_resp) ==
    IF find_resp.status = "OK" /\ find_resp.candidates /= <<>>
    THEN find_resp.candidates[1] ELSE None

\* What the details cache holds: the normalized record, or the sentinel
\* {"error": "API_ERROR", "status": ...} of line 239.
CachedDetails(details) == [error |-> None, status |-> None, details |-> <<details>>]
FailedSentinel(status) ==
    [error |-> <<"API_ERROR">>, status |-> <<status>>, details |-> <<>>]

\* The mutant of details_failure_entries: a failed lookup caches nothing.
details_failure_not_cached(entries, caching, key, status, t) == entries

\* Lines 238-239: the sentinel written on a non-OK details status.
details_failure_entries(entries, caching, key, status, t) ==
    IF caching
    THEN CacheSet(entries, key, FailedSentinel(status), NEGATIVE_CACHE_TIMEOUT, t)
    ELSE entries

\* The mutant of details_success_entries: the record is kept as briefly as
\* the sentinel.
details_success_short_lived(entries, caching, key, details, t) ==
    IF caching
    THEN CacheSet(entries, key, CachedDetails(details), NEGATIVE_CACHE_TIMEOUT, t)
    ELSE entries

\* Lines 232-234: the record written on an OK details status.
details_success_entries(entries, caching, key, details, t) ==
    IF caching
    THEN CacheSet(entries, key, CachedDetails(details), PLACE_DETAILS_CACHE_TIMEOUT, t)
    ELSE entries

\* Lines 190-243, the details stage for the place id in use:
\* [result, entries (the gdetails namespace afterwards), requested].
details_stage(entries, use_caching, api_key, t, place_id_to_use, details_resp) ==
    LET key == details_cache_key(place_id_to_use)
        cached_details_result ==
            IF use_caching THEN CacheGet(entries, key, t) ELSE <<>>
    IN IF cached_details_result /= <<>>
       THEN [result |-> IF Truthy(cached_details_result[1].error) THEN <<>>
                        ELSE cached_details_result[1].details,
             entries |-> entries, requested |-> FALSE]
       ELSE IF details_resp.kind /= "ok"
       THEN [result |-> <<>>, entries |-> entries, requested |-> TRUE]
       ELSE IF details_resp.status = "OK"
       THEN LET details == processed_details(details_resp.result, api_key)
            IN [result |-> <<details>>,
                entries |-> details_success_entries(entries, use_caching, key,
                                                    details, t),
                requested |-> TRUE]
       ELSE [result |-> <<>>,
             entries |-> details_failure_entries(entries, use_caching, key,
                                                 details_resp.status, t),
             requested |-> TRUE]

\* The mutant of find_stage: the find-place cache is never read.
find_stage_uncached(entries, caching, t, business_name, address, latitude, longitude, known_place_id, find_resp) ==
    LET key == find_place_cache_key(business_name, address, latitude, longitude)
    IN IF Truthy(known_place_id)
       THEN [place_id |-> known_place_id, entries |-> entries,
             requested |-> FALSE, raised |-> FALSE]
       ELSE IF find_resp.kind /= "ok"
       THEN [place_id |-> None, entries |-> entries,
             requested |-> TRUE, raised |-> TRUE]
       ELSE [place_id |-> found_place_id(find_resp),
             entries |-> IF Truthy(found_place_id(find_resp)) /\ caching
                         THEN CacheSet(entries, key, found_place_id(find_resp),
                                       FIND_PLACE_CACHE_TIMEOUT, t)
                         ELSE entries,
             requested |-> TRUE, raised |-> FALSE]

\* Lines 144-188, the find stage: [place_id (the id to use, or None),
\* entries (the gfind namespace afterwards), requested, raised (the upstream
\* call or its decoding raised, line 182)].
find_stage(entries, caching, t, business_name, address, latitude, longitude, known_place_id, find_resp) ==
    LET key == find_place_cache_key(business_name, address, latitude, longitude)
        cached_place_id ==
            IF caching THEN CacheGet(entries, key, t) ELSE <<>>
        find_hit == cached_place_id /= <<>> /\ Truthy(cached_place_id[1])
    IN IF Truthy(known_place_id)
       THEN [place_id |-> known_place_id, entries |-> entries,
             requested |-> FALSE, raised |-> FALSE]
       ELSE IF find_hit
       THEN [place_id |-> cached_place_id[1], entries |-> entries,
             requested |-> FALSE, raised |-> FALSE]
       ELSE IF find_resp.kind /= "ok"
       THEN [place_id |-> None, entries |-> entries,
             requested |-> TRUE, raised |-> TRUE]
       ELSE [place_id |-> found_place_id(find_resp),
             entries |-> IF Truthy(found_place_id(find_resp)) /\ caching
                         THEN CacheSet(entries, key, found_place_id(find_resp),
                                       FIND_PLACE_CACHE_TIMEOUT, t)
                         ELSE entries,
             requested |-> TRUE, raised |-> FALSE]

\* The call as a whole: [result (<<record>> or <<>> for None), cache,
\* find_requested, details_requested, place_id (the id the details stage was
\* entered with, or None)].
enrich_with_google_places(cache_before, caching, key, t, business_name, address, latitude, longitude, known_place_id, find_resp, details_resp) ==
    LET f == find_stage(cache_before.gfind, caching, t, business_name, address,
                        latitude, longitude, known_place_id, find_resp)
        d == details_stage(cache_before.gdetails, caching, key, t,
                           f.place_id, details_resp)
    IN IF ~Truthy(key)
       THEN [result |-> <<>>, cache |-> cache_before, find_requested |-> FALSE,
             details_requested |-> FALSE, place_id |-> None]
       ELSE IF ~Truthy(f.place_id)
       THEN [result |-> <<>>, cache |-> [cache_before EXCEPT !.gfind = f.entries],
             find_requested |-> f.requested, details_requested |-> FALSE,
             place_id |-> None]
       ELSE [result |-> d.result,
             cache |-> [cache_before EXCEPT !.gfind = f.entries,
                                            !.gdetails = d.entries],
             find_requested |-> f.requested,
             details_requested |-> d.requested,
             place_id |-> f.place_id]

(***************************************************************************)
(* Input data.                                                             *)
(***************************************************************************)

OldName == <<"O","l","d">>
NewName == <<"N","e","w">>
MainSt  == <<"M","a","i","n"," ","S","t">>
Troy    == <<"T","r","o","y">>
ApiKey  == <<"KEY">>

\* A tag mapping with every key of the model; absent keys hold None.
NoTags ==
    [name |-> None, addr_housenumber |-> None, addr_street |-> None,
     addr_city |-> None, addr_state |-> None, addr_postcode |-> None,
     website |-> None, contact_website |-> None, phone |-> None,
     contact_phone |-> None, opening_hours |-> None, amenity |-> None,
     shop |-> None, leisure |-> None, craft |-> None]

\* The tag mappings the normalizer is applied to.
NormalizeTags ==
    { [NoTags EXCEPT !.name = n, !.addr_street = st, !.addr_city = ci,
                     !.website = w, !.contact_website = cw, !.phone = ph,
                     !.contact_phone = cph, !.opening_hours = oh,
                     !.amenity = am, !.shop = sh] :
        n \in {None, <<>>, OldName}, st \in {None, MainSt}, ci \in {None, Troy},
        w \in {None, <<"http://osm.example">>},
        cw \in {None, <<"http://contact.example">>},
        ph \in {None, <<"+1-518-555-0100">>}, cph \in {None, <<"+1-518-555-0199">>},
        oh \in {None, <<"Mo-Fr 09:00-17:00">>},
        am \in {None, <<"cafe">>}, sh \in {None, <<"bakery">>} }

\* A node with its own coordinates and a way with a centre.
NormalizeElements ==
    { [type |-> "node", id |-> 1, lat |-> <<427284>>, lon |-> <<-736918>>,
       center |-> <<>>, tags |-> t] : t \in NormalizeTags }
    \cup
    { [type |-> "way", id |-> 2, lat |-> <<>>, lon |-> <<>>,
       center |-> <<[lat |-> 427300, lon |-> -736900]>>, tags |-> t] :
        t \in NormalizeTags }

\* A place-details `result` with every key of the model; absent keys hold None.
NoResult ==
    [place_id |-> None, name |-> None, formatted_address |-> None,
     vicinity |-> None, international_phone_number |-> None, website |-> None,
     rating |-> None, user_ratings_total |-> None, weekday_text |-> NoHours,
     photos |-> <<>>, url |-> None, business_status |-> None, types |-> <<>>,
     price_level |-> None, utc_offset |-> None]

\* The place-details results the upstream answers with for place id `pid`.
DetailsResults(pid) ==
    { [NoResult EXCEPT !.place_id = pid, !.name = n, !.formatted_address = a,
                       !.international_phone_number = ph, !.website = w,
                       !.weekday_text = oh, !.types = ty,
                       !.photos = pr[1], !.rating = pr[2],
                       !.user_ratings_total = pr[3],
                       !.url = <<"https://maps.google.com/?cid=1">>] :
        n \in {None, NewName},
        a \in {None, <<"1"," ">> \o MainSt \o CommaSpace \o Troy},
        ph \in {None, <<"+1 518-555-0142">>},
        w \in {None, <<"http://google.example">>},
        oh \in {NoHours, ListHours(<< <<"Monday: 9-5">>, <<"Tuesday: 9-5">> >>)},
        ty \in {<<>>, << <<"cafe">>, <<"food">> >>},
        pr \in { << <<>>, None, None >>,
                 << << <<"PHOTOREF">> >>, <<"4.5">>, <<"120">> >> } }

NormalizeEnrichments ==
    {<<>>} \cup { <<processed_details(r, ApiKey)>> : r \in DetailsResults(<<"P1">>) }

(***************************************************************************)
(* Search Orchestrator: routes_search.py search_osm_places_route.          *)
(***************************************************************************)

google_enrich_attempt_limit == 5
DEFAULT_LIMIT == 50
MAX_LIMIT == 500

\* int(x) for the strings of the model: surrounding blanks, an optional sign
\* and decimal digits give <<n>>; anything else raises ValueError (<<>>).
ParseInt(x) ==
    LET t == Strip(x)
        body == IF t /= <<>> /\ Head(t) \in {"-", "+"} THEN Tail(t) ELSE t
    IN IF AllDigits(body)
       THEN <<IF Head(t) = "-" THEN 0 - DigitsValue(body) ELSE DigitsValue(body)>>
       ELSE <<>>

\* The mutant of effective_limit: the limit is used as it was parsed.
effective_limit_unchecked(limit_arg) ==
    IF limit_arg = None THEN DEFAULT_LIMIT
    ELSE IF ParseInt(limit_arg) = <<>> THEN DEFAULT_LIMIT
    ELSE ParseInt(limit_arg)[1]

\* Lines 174-178: the limit in use; `limit_arg` is None when the parameter
\* is missing.
effective_limit(limit_arg) ==
    IF limit_arg = None THEN DEFAULT_LIMIT
    ELSE IF ParseInt(limit_arg) = <<>> THEN DEFAULT_LIMIT
    ELSE IF ParseInt(limit_arg)[1] <= 0 \/ ParseInt(limit_arg)[1] > MAX_LIMIT
         THEN DEFAULT_LIMIT
    ELSE ParseInt(limit_arg)[1]

\* The mutant of is_element_sufficiently_detailed: no element is dropped.
keeps_every_element(element) == TRUE

\* Lines 220-223.
is_element_sufficiently_detailed(element) == Truthy(element.tags.name)

\* A number is falsy when it is None or zero.
TruthyNumber(x) == x /= <<>> /\ x[1] /= 0

\* Lines 240-241: element.get("lat") or element.get("center", {}).get("lat").
osm_lat_of(element) ==
    IF TruthyNumber(element.lat) THEN element.lat
    ELSE IF element.center /= <<>> THEN <<element.center[1].lat>> ELSE <<>>

osm_lon_of(element) ==
    IF TruthyNumber(element.lon) THEN element.lon
    ELSE IF element.center /= <<>> THEN <<element.center[1].lon>> ELSE <<>>

\* Lines 244-254: the address hint given to the enrichment client.
address_hint_of(element, geo_data, location_name) ==
    LET addr_street == element.tags.addr_street
        addr_city_osm == element.tags.addr_city
    IN IF Truthy(addr_city_osm)
       THEN IF Truthy(addr_street)
            THEN addr_street \o CommaSpace \o addr_city_osm
            ELSE addr_city_osm
       ELSE IF Truthy(geo_data.display_name)
       THEN LET city_context_from_nominatim ==
                    Strip(BeforeFirst(geo_data.display_name, ","))
            IN IF Truthy(addr_street)
               THEN addr_street \o CommaSpace \o city_context_from_nominatim
               ELSE city_context_from_nominatim
       ELSE location_name

\* The mutant of may_attempt_enrichment: the flag is not looked at.
may_attempt_whatever_the_flag(enrich_google_str, count, element) ==
    /\ count < google_enrich_attempt_limit
    /\ Truthy(element.tags.name)
    /\ TruthyNumber(osm_lat_of(element))
    /\ TruthyNumber(osm_lon_of(element))

\* Lines 238-242: whether the element is handed to the enrichment client.
may_attempt_enrichment(enrich_google_str, count, element) ==
    /\ enrich_google_str = <<"t","r","u","e">>
    /\ count < google_enrich_attempt_limit
    /\ Truthy(element.tags.name)
    /\ TruthyNumber(osm_lat_of(element))
    /\ TruthyNumber(osm_lon_of(element))

\* The mutant of insert_by_score: equal scores are put in front.
insert_before_equal(sorted, lead) ==
    LET before == SelectSeq(sorted, LAMBDA l :
                    calculate_completeness_score(l) > calculate_completeness_score(lead))
        after == SelectSeq(sorted, LAMBDA l :
                    calculate_completeness_score(l) <= calculate_completeness_score(lead))
    IN before \o <<lead>> \o after

\* One step of the stable descending sort: the lead goes behind every lead
\* whose score is not smaller.
insert_by_score(sorted, lead) ==
    LET before == SelectSeq(sorted, LAMBDA l :
                    calculate_completeness_score(l) >= calculate_completeness_score(lead))
        after == SelectSeq(sorted, LAMBDA l :
                    calculate_completeness_score(l) < calculate_completeness_score(lead))
    IN before \o <<lead>> \o after

RECURSIVE sort_by_score(_)
\* Line 272: list.sort(key=score, reverse=True), which is stable.
sort_by_score(leads) ==
    IF leads = <<>> THEN <<>>
    ELSE insert_by_score(sort_by_score(SubSeq(leads, 1, Len(leads) - 1)),
                         leads[Len(leads)])

Min(a, b) == IF a <= b THEN a ELSE b

\* Line 236: the length of filtered_osm_elements[:backend_processing_limit].
processing_count(filtered, limit) == Min(Len(filtered), limit)

\* The mutant of location_is_missing: every location is taken as given.
location_never_missing(location_name) == FALSE

\* Line 182: `if not location_name`.
location_is_missing(location_name) == ~Truthy(location_name)

\* The mutant of upstream_requests: a call that asked upstream asked twice.
upstream_requests_retried(requested) == IF requested THEN 2 ELSE 0

\* The HTTP requests of one call of a client function: the one requests.get
\* or requests.post of its try block when the call reached it.
upstream_requests(requested) == IF requested THEN 1 ELSE 0

\* The JSON bodies; a key that is not in the body is <<>>.
Response(status, http, places, count) ==
    [status |-> status, http |-> http, places |-> places, count |-> count]

\* The mutant of final_response: only the enriched leads are answered.
final_response_enriched_only(leads) ==
    LET kept == SelectSeq(leads, LAMBDA l : l.google_place_id /= None)
    IN IF kept = <<>>
       THEN Response("ZERO_RESULTS", 200, << <<>> >>, <<0>>)
       ELSE Response("OK", 200, <<sort_by_score(kept)>>, <<Len(kept)>>)

\* Lines 271-280: sort and answer.
final_response(leads) ==
    IF leads = <<>>
    THEN Response("ZERO_RESULTS", 200, << <<>> >>, <<0>>)
    ELSE Response("OK", 200, <<sort_by_score(leads)>>, <<Len(leads)>>)

(***************************************************************************)
(* State.                                                                  *)
(***************************************************************************)

VARIABLES
    norm_el,    \* normalizer harness: the raw element
    norm_g,     \* normalizer harness: the enrichment record or None
    norm_out,   \* normalizer harness: <<>> before the call, then <<result>>
    use_caching,    \* whether the imported cache object has get and set
    api_key,        \* GOOGLE_PLACES_API_KEY, None when not configured
    cache,          \* the shared cache
    now,            \* the clock, in seconds
    pc,             \* the position of the search request being handled
    req,            \* the request: the locals of lines 170-178
    osm_tag_conditions_list,
    geo_data,
    raw_request,        \* <<>>, then <<the query string as received>>
    nominatim_answer,   \* <<>>, then <<the answer of the geocoder>>
    overpass_query_sent,    \* <<>>, then <<the query posted to the place source>>
    overpass_answer,    \* <<>>, then <<the answer of the place source>>
    filtered_osm_elements,
    processed_leads,
    enriched_count,
    calls,          \* upstream requests and enrichment calls of this request
    response,       \* <<>> until the request is answered
    enr_last,       \* enrichment client: <<>>, then <<the last call>>
    details_log,    \* per place id: <<>>, then <<its last details request>>
    saved_leads,    \* the rows of table saved_lead, in insertion order
    save_response,  \* <<>>, then <<the answer to the last request on leads>>
    lead_last,      \* <<>>, then <<the last update, delete, enrich or list request>>
    workers,        \* the save requests in flight, one per worker
    geo_last,       \* geocoder: <<>>, then <<the last call>>
    upstream        \* <<>>, or <<the answer the geocoder gives to each city name>>

normVars == <<norm_el, norm_g, norm_out>>
configVars == <<use_caching, api_key>>
searchVars == <<pc, raw_request, req, osm_tag_conditions_list, nominatim_answer,
                geo_data, overpass_query_sent, overpass_answer,
                filtered_osm_elements, processed_leads, enriched_count, calls,
                response>>

enrichVars == <<enr_last, details_log>>
leadVars == <<saved_leads, save_response, lead_last, workers>>

geoVars == <<geo_last, upstream>>

vars == <<normVars, configVars, cache, now, searchVars, enrichVars, leadVars,
          geoVars>>

NoCalls == [nominatim |-> 0, overpass |-> 0, find |-> 0, details |-> 0, enrich |-> 0]

NoRequest == [query_term |-> <<>>, location_name |-> None,
              enrich_google_str |-> <<>>, limit |-> 0]

\* No search request is being handled.
SearchIdle ==
    /\ pc = "idle"
    /\ req = NoRequest
    /\ osm_tag_conditions_list = <<>>
    /\ geo_data = <<>>
    /\ raw_request = <<>>
    /\ nominatim_answer = <<>>
    /\ overpass_query_sent = <<>>
    /\ overpass_answer = <<>>
    /\ filtered_osm_elements = <<>>
    /\ processed_leads = <<>>
    /\ enriched_count = 0
    /\ calls = NoCalls
    /\ response = <<>>

NormalizerIdle == norm_el = <<>> /\ norm_g = <<>> /\ norm_out = <<>>

PlaceIds == { <<"P1">>, <<"P2">> }

\* No call of the enrichment client has been made.
EnrichIdle == enr_last = <<>> /\ details_log = [p \in PlaceIds |-> <<>>]

\* No call of the geocoder has been made.
GeoIdle ==
    /\ geo_last = <<>>
    /\ upstream = <<>>

\* The table saved_lead is empty.
WorkerIds == {1, 2}

\* The worker handles no request.
IdleWorker == [pc |-> "idle", current_user |-> 0, data |-> <<>>, http |-> 0]

LeadsIdle ==
    /\ saved_leads = <<>>
    /\ save_response = <<>>
    /\ lead_last = <<>>
    /\ workers = [w \in WorkerIds |-> IdleWorker]

\* The deployments: the cache object and the API key as configured.
Configurations ==
    { <<TRUE, ApiKey>>, <<FALSE, ApiKey>>, <<TRUE, None>> }

(***************************************************************************)
(* The normalizer and the score applied to every element and record.       *)
(***************************************************************************)

InitNormalize ==
    /\ norm_el \in { <<e>> : e \in NormalizeElements }
    /\ norm_g \in NormalizeEnrichments
    /\ norm_out = <<>>
    /\ use_caching = TRUE /\ api_key = ApiKey
    /\ cache = EmptyCache /\ now = 0
    /\ SearchIdle
    /\ EnrichIdle
    /\ LeadsIdle
    /\ GeoIdle

NormalizeCall ==
    /\ norm_out = <<>>
    /\ norm_out' = <<normalize_osm_result(norm_el[1], norm_g)>>
    /\ UNCHANGED <<norm_el, norm_g, configVars, cache, now, searchVars, enrichVars,
                   leadVars, geoVars>>

NextNormalize == NormalizeCall

SpecNormalize == InitNormalize /\ [][NextNormalize]_vars

(***************************************************************************)
(* One search request and the answers of the upstream services.            *)
(***************************************************************************)

MaxShortElems == 2
MaxElems == 6

Cafes   == <<"c","a","f","e","s">>
TroyNY  == <<"T","r","o","y",","," ","N","Y">>
TrueStr == <<"t","r","u","e">>

\* The query string of the request; a missing parameter is None.
SearchRequests ==
    { [query |-> q, location |-> l, enrich_google |-> None, limit |-> None] :
        q \in {None, <<>>, Cafes, <<" ","C","a","f","e","s">>, <<"t","a","c","o">>,
               <<" ","T","a","c","o"," ","S","t","a","n","d">>},
        l \in {None, <<>>, TroyNY} }
    \cup
    { [query |-> Cafes, location |-> TroyNY, enrich_google |-> e[1], limit |-> e[2]] :
        e \in { <<TrueStr, None>>, <<TrueStr, <<"2">> >>,
                <<<<"T","r","u","e">>, None>>,
                <<<<"f","a","l","s","e">>, <<"0">> >>,
                <<<<"f","a","l","s","e">>, <<"5","0","1">> >>,
                <<<<"f","a","l","s","e">>, <<"a","b","c">> >> } }

GoodLocationItem ==
    [boundingbox |-> << <<"42.6596">>, <<"42.7950">>, <<"-73.7289">>, <<"-73.6435">> >>,
     lat |-> <<"4","2",".","7","2","8","4">>,
     lon |-> <<"-","7","3",".","6","9","1","8">>,
     display_name |-> <<"T","r","o","y",","," ","N","e","w"," ","Y","o","r","k">>]

NominatimResponses ==
    { [kind |-> k, items |-> <<>>] :
        k \in {"http_error", "request_error", "bad_json", "ok"} }
    \cup
    { [kind |-> "ok", items |-> <<i>>] :
        i \in { GoodLocationItem,
                [GoodLocationItem EXCEPT !.display_name = None],
                [GoodLocationItem EXCEPT !.boundingbox = <<>>],
                [GoodLocationItem EXCEPT
                    !.boundingbox = << <<"42.6596">>, <<"42.7950">>, <<"-73.7289">> >>],
                [GoodLocationItem EXCEPT !.lat = None],
                [GoodLocationItem EXCEPT
                    !.boundingbox = << <<"1">>, <<"3">>, <<"2">>, <<"4">> >>] } }

\* The raw elements the place source answers with: a named node, a named way
\* with a centre, an address and a phone number, a richly tagged node without
\* a name, a node whose name is empty, and a named way without coordinates.
ElementShapes ==
    { [type |-> "node", lat |-> <<427284>>, lon |-> <<-736918>>, center |-> <<>>,
       tags |-> [NoTags EXCEPT !.name = OldName, !.amenity = <<"cafe">>]],
      [type |-> "way", lat |-> <<>>, lon |-> <<>>,
       center |-> <<[lat |-> 427300, lon |-> -736900]>>,
       tags |-> [NoTags EXCEPT !.name = <<"B","i","g">>, !.addr_street = MainSt,
                               !.addr_city = Troy, !.phone = <<"+1-518-555-0100">>]],
      [type |-> "node", lat |-> <<427311>>, lon |-> <<-736877>>, center |-> <<>>,
       tags |-> [NoTags EXCEPT !.addr_street = MainSt, !.addr_city = Troy,
                               !.website = <<"http://osm.example">>,
                               !.phone = <<"+1-518-555-0100">>, !.shop = <<"bakery">>]],
      [type |-> "node", lat |-> <<427322>>, lon |-> <<-736866>>, center |-> <<>>,
       tags |-> [NoTags EXCEPT !.name = <<>>, !.amenity = <<"cafe">>]],
      [type |-> "way", lat |-> <<>>, lon |-> <<>>, center |-> <<>>,
       tags |-> [NoTags EXCEPT !.name = <<"F","a","r">>,
                               !.website = <<"http://osm.example">>]] }

\* A named node of a long answer; the names differ from element to element.
NamedNode(i) ==
    [type |-> "node", id |-> i, lat |-> <<427284 + 11 * i>>, lon |-> <<-736918>>,
     center |-> <<>>,
     tags |-> [NoTags EXCEPT !.name = <<"V", Digits[i + 1]>>]]

\* Element lists: every list of at most MaxShortElems shapes, and the lists of
\* MaxShortElems + 1 to MaxElems named nodes.  The id is the position.
ElementLists ==
    UNION { { [i \in 1..n |->
                [type |-> f[i].type, id |-> i, lat |-> f[i].lat, lon |-> f[i].lon,
                 center |-> f[i].center, tags |-> f[i].tags]] :
              f \in [1..n -> ElementShapes] } : n \in 0..MaxShortElems }
    \cup { [i \in 1..n |-> NamedNode(i)] : n \in (MaxShortElems + 1)..MaxElems }

\* The answers of the place source that raise in fetch_osm_data.
OverpassFailureKinds == {"http_error", "timeout", "request_error", "bad_json"}

OverpassResponses ==
    { [kind |-> k, elements |-> <<>>] :
        k \in OverpassFailureKinds \cup {"null_elements"} }
    \cup { [kind |-> "ok", elements |-> l] : l \in ElementLists }

\* The find-place answers whose candidate, if any, is one of `ids`.
FindResponsesFor(ids) ==
    { [kind |-> "exception", status |-> "", candidates |-> <<>>],
      [kind |-> "ok", status |-> "ZERO_RESULTS", candidates |-> <<>>],
      [kind |-> "ok", status |-> "REQUEST_DENIED", candidates |-> <<>>],
      [kind |-> "ok", status |-> "OK", candidates |-> <<>>],
      [kind |-> "ok", status |-> "OK", candidates |-> <<None>>] }
    \cup { [kind |-> "ok", status |-> "OK", candidates |-> <<p>>] : p \in ids }

\* The find-place answers during a search: the venues of one search are
\* matched to one place.
FindResponses == FindResponsesFor({ <<"P1">> })

\* The details a place has upstream: every field present.
FullResult(pid) ==
    [NoResult EXCEPT !.place_id = pid, !.name = NewName,
                     !.formatted_address = <<"1"," ">> \o MainSt \o CommaSpace \o Troy,
                     !.international_phone_number = <<"+1 518-555-0142">>,
                     !.website = <<"http://google.example">>,
                     !.rating = <<"4.5">>, !.user_ratings_total = <<"120">>,
                     !.weekday_text = ListHours(<< <<"Monday: 9-5">> >>),
                     !.photos = << <<"PHOTOREF">> >>,
                     !.url = <<"https://maps.google.com/?cid=1">>,
                     !.business_status = <<"OPERATIONAL">>,
                     !.types = << <<"cafe">>, <<"food">> >>]

\* The answers to a details request for place id `pid`; with no place id
\* there is no request, and one answer stands for all.
DetailsResponses(pid) ==
    IF pid = None
    THEN { [kind |-> "exception", status |-> "", result |-> NoResult] }
    ELSE { [kind |-> "exception", status |-> "", result |-> NoResult],
           [kind |-> "ok", status |-> "NOT_FOUND", result |-> NoResult],
           [kind |-> "ok", status |-> "OK", result |-> FullResult(pid)] }

Init ==
    /\ NormalizerIdle
    /\ \E c \in Configurations : use_caching = c[1] /\ api_key = c[2]
    /\ cache = EmptyCache
    /\ now = 0
    /\ SearchIdle
    /\ EnrichIdle
    /\ LeadsIdle
    /\ GeoIdle

\* Lines 168-200: the parameters, the two validations and the conditions,
\* for a request of `requests`.
ReceiveFrom(requests) ==
    /\ pc = "idle"
    /\ \E raw \in requests :
       \E query_term \in { Lower(Strip(Or(raw.query, <<>>))) } :
           /\ raw_request' = <<raw>>
           /\ req' = [query_term |-> query_term,
                      location_name |-> raw.location,
                      enrich_google_str |->
                          Lower(IF raw.enrich_google = None
                                THEN <<"f","a","l","s","e">>
                                ELSE raw.enrich_google),
                      limit |-> effective_limit(raw.limit)]
           /\ IF location_is_missing(raw.location)
              THEN /\ response' = <<Response("BAD_REQUEST", 400, <<>>, <<>>)>>
                   /\ pc' = "done"
                   /\ UNCHANGED osm_tag_conditions_list
              ELSE IF TagMappingGet(query_term) = <<>> /\ query_term = <<>>
              THEN /\ response' = <<Response("BAD_REQUEST", 400, <<>>, <<>>)>>
                   /\ pc' = "done"
                   /\ UNCHANGED osm_tag_conditions_list
              ELSE /\ osm_tag_conditions_list' = ResolveConditions(query_term)
                   /\ pc' = "geocode"
                   /\ UNCHANGED response
    /\ UNCHANGED <<normVars, enrichVars, leadVars, geoVars, configVars, cache, now,
                   nominatim_answer, geo_data, overpass_query_sent, overpass_answer,
                   filtered_osm_elements, processed_leads, enriched_count, calls>>

ReceiveRequest == ReceiveFrom(SearchRequests)

\* Lines 202-207: the geocoder call and the LOCATION_NOT_FOUND answer.
Geocode ==
    /\ pc = "geocode"
    /\ \E resp \in NominatimResponses :
       \E g \in { get_coordinates_for_city(cache.nominatim, use_caching, now,
                                           req.location_name, resp) } :
           /\ cache' = [cache EXCEPT !.nominatim = g.entries]
           /\ nominatim_answer' = IF g.requested THEN <<resp>> ELSE <<>>
           /\ calls' = [calls EXCEPT !.nominatim = @ + upstream_requests(g.requested)]
           /\ geo_data' = g.result
           /\ IF g.result = <<>>
              THEN /\ response' = <<Response("LOCATION_NOT_FOUND", 200, <<>>, <<>>)>>
                   /\ pc' = "done"
              ELSE /\ pc' = "fetch"
                   /\ UNCHANGED response
    /\ UNCHANGED <<normVars, enrichVars, leadVars, geoVars, configVars, now,
                   raw_request, req, osm_tag_conditions_list, overpass_query_sent,
                   overpass_answer, filtered_osm_elements, processed_leads,
                   enriched_count>>

\* Lines 210-228: the place-source call, the None check, the name filter and
\* the ZERO_RESULTS answer.
Fetch ==
    /\ pc = "fetch"
    /\ \E resp \in OverpassResponses :
       \E f \in { fetch_osm_data(osm_tag_conditions_list,
                                 geo_data[1].bounding_box_str, req.limit, resp) } :
       \E osm_elements \in { f.elements } :
           /\ overpass_query_sent' = IF f.requested THEN <<f.query>> ELSE <<>>
           /\ overpass_answer' = IF f.requested THEN <<resp>> ELSE <<>>
           /\ calls' = [calls EXCEPT !.overpass = @ + upstream_requests(f.requested)]
           /\ IF osm_elements = <<>>
              THEN /\ response' = <<Response("OSM_API_ERROR", 500, <<>>, <<>>)>>
                   /\ pc' = "done"
                   /\ UNCHANGED filtered_osm_elements
              ELSE IF SelectSeq(osm_elements[1], is_element_sufficiently_detailed) = <<>>
              THEN /\ response' = <<Response("ZERO_RESULTS", 200, << <<>> >>, <<>>)>>
                   /\ pc' = "done"
                   /\ UNCHANGED filtered_osm_elements
              ELSE /\ filtered_osm_elements' =
                          SelectSeq(osm_elements[1], is_element_sufficiently_detailed)
                   /\ pc' = "loop"
                   /\ UNCHANGED response
    /\ UNCHANGED <<normVars, enrichVars, leadVars, geoVars, configVars, cache, now,
                   raw_request, req, osm_tag_conditions_list, nominatim_answer,
                   geo_data, processed_leads, enriched_count>>

\* Lines 256-262 and, with the last element of the slice, lines 264-280: the
\* lead is normalized and appended; after the loop the list is sorted and
\* answered.
AppendLead(element, google_data_for_this_lead) ==
    \E leads \in { Append(processed_leads,
                          normalize_osm_result(element, google_data_for_this_lead)) } :
        /\ enriched_count' = IF google_data_for_this_lead /= <<>>
                             THEN enriched_count + 1 ELSE enriched_count
        /\ processed_leads' = leads
        /\ IF Len(leads) = processing_count(filtered_osm_elements, req.limit)
           THEN /\ response' = <<final_response(leads)>>
                /\ pc' = "done"
           ELSE UNCHANGED <<response, pc>>

\* Lines 236-262: one iteration of the loop over the slice.
ProcessElement ==
    /\ pc = "loop"
    /\ \E element \in { filtered_osm_elements[Len(processed_leads) + 1] } :
         IF may_attempt_enrichment(req.enrich_google_str, enriched_count, element)
         THEN \E find_resp \in FindResponses :
              \E asked \in { find_stage(cache.gfind, use_caching, now,
                                element.tags.name,
                                address_hint_of(element, geo_data[1], req.location_name),
                                osm_lat_of(element), osm_lon_of(element), None,
                                find_resp).place_id } :
              \E details_resp \in DetailsResponses(asked) :
              \E e \in { enrich_with_google_places(
                            cache, use_caching, api_key, now,
                            element.tags.name,
                            address_hint_of(element, geo_data[1], req.location_name),
                            osm_lat_of(element), osm_lon_of(element), None,
                            find_resp, details_resp) } :
                  /\ cache' = e.cache
                  /\ calls' = [calls EXCEPT
                                 !.enrich = @ + 1,
                                 !.find = @ + upstream_requests(e.find_requested),
                                 !.details = @ + upstream_requests(e.details_requested)]
                  /\ AppendLead(element, e.result)
         ELSE /\ UNCHANGED <<cache, calls>>
              /\ AppendLead(element, <<>>)
    /\ UNCHANGED <<normVars, enrichVars, leadVars, geoVars, configVars, now,
                   raw_request, req, osm_tag_conditions_list, nominatim_answer,
                   geo_data, overpass_query_sent, overpass_answer,
                   filtered_osm_elements>>

Next ==
    \/ ReceiveRequest
    \/ Geocode
    \/ Fetch
    \/ ProcessElement

Spec == Init /\ [][Next]_vars

(***************************************************************************)
(* The limit parameter: requests that differ in their limit text only.     *)
(***************************************************************************)

MaxLimitLen == 3

LimitAlphabet == {"0", "1", "5", "-", " ", "a"}

\* The texts of the limit parameter: every string of the alphabet up to
\* MaxLimitLen characters.
LimitTexts == UNION { [1..n -> LimitAlphabet] : n \in 0..MaxLimitLen }

LimitRequests ==
    { [query |-> Cafes, location |-> TroyNY, enrich_google |-> None, limit |-> l] :
        l \in {None} \cup LimitTexts }

\* Lines 168-200 for one of these requests.
ReceiveLimitRequest == ReceiveFrom(LimitRequests)

NextLimit == ReceiveLimitRequest

SpecLimit == Init /\ [][NextLimit]_vars

(***************************************************************************)
(* Repeated calls of the enrichment client while the clock advances.       *)
(***************************************************************************)

MaxTime == 300
TickSteps == {100, 300}

\* The venue the client is asked about: [business_name, latitude, longitude].
Venues ==
    { [business_name |-> OldName, latitude |-> <<427284>>, longitude |-> <<-736918>>] }

\* The venue as the callers spell and locate it: with a known place id the
\* name and the coordinates are not read, and one spelling stands for all.
VenuesGiven(known_place_id) ==
    IF known_place_id = None
    THEN Venues \cup { [business_name |-> <<"O","L","D"," ">>,
                        latitude |-> <<427281>>, longitude |-> <<-736918>>] }
    ELSE Venues

\* How a details request ended: the call or its decoding raised, the
\* upstream answered with a status other than OK, or with OK.
details_outcome(details_resp) ==
    IF details_resp.kind /= "ok" THEN "exception"
    ELSE IF details_resp.status /= "OK" THEN "status"
    ELSE "ok"

\* The find-place answers of a call: a call that makes no find-place
\* request (a known place id, a cached one) reads no answer, and one answer
\* stands for all.
FindResponsesGiven(requested) ==
    IF requested
    THEN FindResponsesFor(PlaceIds)
    ELSE { [kind |-> "exception", status |-> "", candidates |-> <<>>] }

InitEnrich ==
    /\ NormalizerIdle
    /\ \E c \in Configurations : use_caching = c[1] /\ api_key = c[2]
    /\ cache = EmptyCache
    /\ now = 0
    /\ SearchIdle
    /\ EnrichIdle
    /\ LeadsIdle
    /\ GeoIdle

\* One call of enrich_with_google_places (utils.py lines 130-243) with the
\* answers of the two upstream endpoints.
EnrichCall ==
    /\ \E known_place_id \in {None} \cup PlaceIds :
       \E v \in VenuesGiven(known_place_id) :
       \E requested \in { find_stage(cache.gfind, use_caching, now,
                                     v.business_name, Troy, v.latitude,
                                     v.longitude, known_place_id,
                                     [kind |-> "exception", status |-> "",
                                      candidates |-> <<>>]).requested } :
       \E find_resp \in FindResponsesGiven(requested) :
       \E asked \in { find_stage(cache.gfind, use_caching, now, v.business_name,
                                 Troy, v.latitude, v.longitude, known_place_id,
                                 find_resp).place_id } :
       \E details_resp \in DetailsResponses(asked) :
       \E e \in { enrich_with_google_places(cache, use_caching, api_key, now,
                        v.business_name, Troy, v.latitude, v.longitude,
                        known_place_id, find_resp, details_resp) } :
           /\ cache' = e.cache
           /\ enr_last' = <<[venue |-> v,
                             known_place_id |-> known_place_id,
                             prior_find |-> cache.gfind,
                             prior_details |-> cache.gdetails,
                             find_answer |-> IF e.find_requested
                                             THEN <<find_resp.kind>> ELSE <<>>,
                             details_answer |-> IF e.details_requested
                                                THEN <<details_outcome(details_resp)>>
                                                ELSE <<>>,
                             result |-> e.result,
                             find_requested |-> e.find_requested,
                             place_id |-> e.place_id,
                             details_requested |-> e.details_requested,
                             returned_none |-> e.result = <<>>,
                             prior |-> IF e.place_id \in PlaceIds
                                       THEN details_log[e.place_id] ELSE <<>>,
                             at |-> now]>>
           /\ details_log' =
                IF e.details_requested
                THEN [details_log EXCEPT ![e.place_id] =
                        <<[outcome |-> details_outcome(details_resp), at |-> now]>>]
                ELSE details_log
    /\ UNCHANGED <<normVars, configVars, now, searchVars, leadVars, geoVars>>

\* Time passes between two calls.
Tick ==
    /\ \E d \in TickSteps :
        /\ now + d <= MaxTime
        /\ now' = now + d
    /\ UNCHANGED <<normVars, configVars, cache, searchVars, enrichVars, leadVars,
                   geoVars>>

NextEnrich ==
    \/ EnrichCall
    \/ Tick

SpecEnrich == InitEnrich /\ [][NextEnrich]_vars

(***************************************************************************)
(* Repeated calls of the geocoder while the clock advances.                *)
(***************************************************************************)

MaxGeoTime == 907200
GeoTickSteps == {302400}

\* The city names the geocoder is asked for; they differ in case, blanks and
\* punctuation only.
Cities == { TroyNY, <<"t","r","o","y"," ","n","y">> }

InitGeocode ==
    /\ NormalizerIdle
    /\ \E c \in Configurations : use_caching = c[1] /\ api_key = c[2]
    /\ cache = EmptyCache
    /\ now = 0
    /\ SearchIdle
    /\ EnrichIdle
    /\ LeadsIdle
    /\ GeoIdle

\* One call of get_coordinates_for_city (utils.py lines 12-80) with the
\* answer of the geocoder.
GeocodeCall ==
    /\ \E city_name \in Cities :
       \E resp \in NominatimResponses :
       \E g \in { get_coordinates_for_city(cache.nominatim, use_caching, now,
                                           city_name, resp) } :
           /\ cache' = [cache EXCEPT !.nominatim = g.entries]
           /\ geo_last' = <<[city_name |-> city_name,
                             prior |-> cache.nominatim,
                             requested |-> upstream_requests(g.requested),
                             result |-> g.result,
                             at |-> now]>>
    /\ UNCHANGED <<normVars, configVars, now, searchVars, enrichVars, leadVars,
                   upstream>>

\* Time passes between two calls of the geocoder.
GeoTick ==
    /\ \E d \in GeoTickSteps :
        /\ now + d <= MaxGeoTime
        /\ now' = now + d
    /\ UNCHANGED <<normVars, configVars, cache, searchVars, enrichVars, leadVars,
                   geoVars>>

NextGeocode ==
    \/ GeocodeCall
    \/ GeoTick

SpecGeocode == InitGeocode /\ [][NextGeocode]_vars

(***************************************************************************)
(* Search requests against a deterministic geocoder: the answer to a city  *)
(* name is a fixed function of the name sent (params q, line 36).  Every   *)
(* request is handled with the shared cache and, beside it, as it would be *)
(* with caching disabled.                                                  *)
(***************************************************************************)

\* The deterministic geocoders: one answer for each city name.
DeterministicGeocoders == [Cities -> NominatimResponses]

InitDeterministic ==
    /\ NormalizerIdle
    /\ use_caching = TRUE /\ api_key = ApiKey
    /\ cache = EmptyCache
    /\ now = 0
    /\ SearchIdle
    /\ EnrichIdle
    /\ LeadsIdle
    /\ geo_last = <<>>
    /\ upstream \in { <<f>> : f \in DeterministicGeocoders }

\* routes_search.py lines 202-207: what the search request does with the
\* result of the geocoder: the LOCATION_NOT_FOUND answer, or the coordinates
\* and the bounding box it goes on with.
geocode_stage_outcome(geo_result) ==
    IF geo_result = <<>>
    THEN [response |-> <<Response("LOCATION_NOT_FOUND", 200, <<>>, <<>>)>>,
          geo_data |-> <<>>]
    ELSE [response |-> <<>>, geo_data |-> geo_result]

\* Lines 202-207 of one search request for `city_name`, with the shared cache
\* and with caching disabled (use_caching false, utils.py lines 16-18).
DeterministicSearch ==
    /\ \E city_name \in Cities :
       \E resp \in { upstream[1][city_name] } :
       \E g \in { get_coordinates_for_city(cache.nominatim, use_caching, now,
                                           city_name, resp) } :
       \E plain \in { get_coordinates_for_city(cache.nominatim, FALSE, now,
                                               city_name, resp) } :
           /\ cache' = [cache EXCEPT !.nominatim = g.entries]
           /\ geo_last' = <<[city_name |-> city_name,
                             prior |-> cache.nominatim,
                             requested |-> upstream_requests(g.requested),
                             result |-> g.result,
                             at |-> now,
                             outcome |-> geocode_stage_outcome(g.result),
                             outcome_uncached |->
                                 geocode_stage_outcome(plain.result)]>>
    /\ UNCHANGED <<normVars, configVars, now, searchVars, enrichVars, leadVars,
                   upstream>>

NextDeterministic ==
    \/ DeterministicSearch
    \/ GeoTick

SpecDeterministic == InitDeterministic /\ [][NextDeterministic]_vars

(***************************************************************************)
(* Save requests against the table saved_lead: routes_leads.py.            *)
(***************************************************************************)

MaxLeads == 3

Users == {1, 2}

\* A key that the JSON payload does not have.
Absent == <<"<absent>">>

\* A JSON payload of POST /api/leads with no key but the three that identify
\* the lead; a missing key is None, a missing user_status is Absent.
BasePayload ==
    [name |-> None, google_place_id |-> None, osm_id |-> None, yelp_id |-> None,
     address |-> None, latitude |-> <<>>, longitude |-> <<>>,
     phone_number |-> None, website |-> None,
     types |-> NoHours, categories_text |-> None, opening_hours |-> NoHours,
     photo_url |-> None, rating |-> None, user_ratings_total |-> None,
     google_maps_url |-> None, business_status |-> None,
     user_status |-> Absent]

\* The JSON payloads of POST /api/leads that differ in the name and the
\* external ids.
SavePayloads ==
    { [BasePayload EXCEPT !.name = n, !.google_place_id = g, !.osm_id = o] :
        n \in {None, OldName},
        g \in {None, <<"G1">>, <<"G2">>},
        o \in {None, <<"node/1">>, <<"node/2">>} }

\* SavedLead.query.filter(...).first() over the rows of one owner; <<row>> or
\* <<>> for None.
first_saved(rows, user_id, column, value) ==
    LET found == SelectSeq(rows, LAMBDA r : r.user_id = user_id /\ r[column] = value)
    IN IF found = <<>> THEN <<>> ELSE <<found[1]>>

\* Lines 31-39: the existence check.
existing_saved_lead(rows, user_id, google_place_id, osm_id) ==
    IF Truthy(google_place_id)
    THEN first_saved(rows, user_id, "google_place_id", google_place_id)
    ELSE IF Truthy(osm_id)
    THEN first_saved(rows, user_id, "osm_id", osm_id)
    ELSE <<>>

SaveAnswer(http, lead) == [http |-> http, lead |-> lead]

\* Lines 45-52: the categories text of the payload; `types` is a list, a
\* string or neither.
categories_text_to_save(data) ==
    IF data.types.kind = "list" THEN Join(<<",">>, data.types.lines)
    ELSE IF data.types.kind = "str" THEN data.types.lines[1]
    ELSE IF Truthy(data.categories_text) THEN data.categories_text
    ELSE None

\* Lines 54-59 and 227-232: the text of an opening-hours value, None when it
\* is neither a list nor a string.
opening_hours_text(payload) ==
    IF payload.kind = "list" THEN Join(<<"\n">>, payload.lines)
    ELSE IF payload.kind = "str" THEN payload.lines[1]
    ELSE None

\* Line 84: data.get('user_status', 'New').
saved_user_status(user_status) ==
    IF user_status = Absent THEN <<"New">> ELSE user_status

\* The primary key of the next row.
next_lead_id(rows) ==
    IF rows = <<>> THEN 1
    ELSE 1 + (CHOOSE m \in { rows[i].id : i \in 1..Len(rows) } :
                 \A i \in 1..Len(rows) : rows[i].id <= m)

\* Lines 61-85: the row of the payload.
new_saved_lead(rows, user_id, data) ==
    [id |-> next_lead_id(rows),
     user_id |-> user_id,
     name |-> data.name,
     google_place_id |-> data.google_place_id,
     osm_id |-> data.osm_id,
     yelp_id |-> data.yelp_id,
     address |-> data.address,
     latitude |-> data.latitude,
     longitude |-> data.longitude,
     phone |-> data.phone_number,
     website |-> data.website,
     categories_text |-> categories_text_to_save(data),
     google_photo_url |-> data.photo_url,
     google_rating |-> data.rating,
     google_user_ratings_total |-> data.user_ratings_total,
     google_maps_url |-> data.google_maps_url,
     google_opening_hours |-> opening_hours_text(data.opening_hours),
     google_business_status |-> data.business_status,
     user_status |-> saved_user_status(data.user_status),
     user_notes |-> None]

\* models.py lines 46, 54, 77: the columns that are not nullable; a commit of
\* a row with None in one of them raises.
violates_not_null(row) == row.name = None \/ row.user_status = None

\* Lines 19-29: the answer to a payload that is refused, or <<>>.
save_refusal(data) ==
    IF ~Truthy(data.name) THEN <<SaveAnswer(400, <<>>)>>
    ELSE IF ~Truthy(data.google_place_id) /\ ~Truthy(data.osm_id)
    THEN <<SaveAnswer(400, <<>>)>>
    ELSE <<>>

InitLeads ==
    /\ NormalizerIdle
    /\ use_caching = TRUE /\ api_key = ApiKey
    /\ cache = EmptyCache
    /\ now = 0
    /\ SearchIdle
    /\ EnrichIdle
    /\ LeadsIdle
    /\ GeoIdle

\* Lines 15-95: save_new_lead for the logged-in user with a payload of
\* `payloads`, while the table has fewer than `max_rows` rows; the commit
\* succeeds or raises.
SaveFrom(payloads, max_rows) ==
    /\ Len(saved_leads) < max_rows
    /\ \E current_user \in Users :
       \E data \in payloads :
       \E existing \in { existing_saved_lead(saved_leads, current_user,
                                             data.google_place_id, data.osm_id) } :
       \E new_lead \in { new_saved_lead(saved_leads, current_user, data) } :
       \E commit_ok \in (IF violates_not_null(new_lead) THEN {FALSE} ELSE BOOLEAN) :
           IF save_refusal(data) /= <<>>
           THEN /\ save_response' = save_refusal(data)
                /\ UNCHANGED saved_leads
           ELSE IF existing /= <<>>
           THEN /\ save_response' = <<SaveAnswer(409, existing)>>
                /\ UNCHANGED saved_leads
           ELSE IF commit_ok
           THEN /\ saved_leads' = Append(saved_leads, new_lead)
                /\ save_response' = <<SaveAnswer(201, <<new_lead>>)>>
           ELSE /\ save_response' = <<SaveAnswer(500, <<>>)>>
                /\ UNCHANGED saved_leads
    /\ lead_last' = <<>>
    /\ UNCHANGED <<normVars, configVars, cache, now, searchVars, enrichVars, geoVars,
                   workers>>

SaveNewLead == SaveFrom(SavePayloads, MaxLeads)

NextLeads == SaveNewLead

SpecLeads == InitLeads /\ [][NextLeads]_vars

(***************************************************************************)
(* The requests of two users on their saved leads: routes_leads.py.        *)
(***************************************************************************)

MaxOwnedLeads == 2
MaxLeadId == 2

MondayHours == <<"M","o","n","d","a","y",":"," ","9","-","5">>

\* The payloads of POST /api/leads of this section: one venue, with and
\* without a user_status.
OwnedPayloads ==
    { [BasePayload EXCEPT !.name = OldName, !.osm_id = <<"node/1">>,
                          !.latitude = <<427284>>, !.longitude = <<-736918>>,
                          !.opening_hours = ListHours(<<MondayHours>>),
                          !.user_status = st] :
        st \in {Absent, None, <<"Archived">>} }

\* The JSON payloads of PUT /api/leads/<id>; the first one is the empty
\* object.
UpdatePayloads ==
    { [user_status |-> Absent, user_notes |-> Absent],
      [user_status |-> <<"Booked">>, user_notes |-> <<"call">>],
      [user_status |-> <<"Archived">>, user_notes |-> <<"call">>] }

\* The ids of the URL.
LeadIds == 1..MaxLeadId

\* Line 120.
VALID_STATUSES ==
    << <<"New">>, <<"Contacted">>, <<"Followed Up">>, <<"Interested">>,
       <<"Booked">>, <<"Not Interested">>, <<"Pending">> >>

\* The mutant of owned_lead: the lead is looked up by its id alone.
lead_of_anyone(rows, lead_id, user_id) ==
    LET found == SelectSeq(rows, LAMBDA r : r.id = lead_id)
    IN IF found = <<>> THEN <<>> ELSE <<found[1]>>

\* Lines 110, 156, 174: filter_by(id=lead_id, user_id=current_user.id).first();
\* <<row>>, or <<>> where first_or_404 answers 404.
owned_lead(rows, lead_id, user_id) ==
    LET found == SelectSeq(rows, LAMBDA r : r.id = lead_id /\ r.user_id = user_id)
    IN IF found = <<>> THEN <<>> ELSE <<found[1]>>

\* The table after the commit of a changed row.
with_row(rows, row) ==
    [i \in DOMAIN rows |-> IF rows[i].id = row.id THEN row ELSE rows[i]]

\* The table after the commit of a deleted row.
without_row(rows, lead_id) == SelectSeq(rows, LAMBDA r : r.id /= lead_id)

\* Lines 114-124: the answer to an update that is refused, or <<>>.
update_refusal(data) ==
    IF data.user_status = Absent /\ data.user_notes = Absent
    THEN <<SaveAnswer(400, <<>>)>>
    ELSE IF /\ data.user_status /= Absent
            /\ ~(\E i \in DOMAIN VALID_STATUSES : VALID_STATUSES[i] = data.user_status)
    THEN <<SaveAnswer(400, <<>>)>>
    ELSE <<>>

\* Lines 122-133: the row with the fields of the payload.
updated_lead(lead, data) ==
    [lead EXCEPT !.user_status = IF data.user_status /= Absent
                                 THEN data.user_status ELSE @,
                 !.user_notes = IF data.user_notes /= Absent
                                THEN data.user_notes ELSE @]

\* `new` where it is truthy, else the stored value (lines 205-217, 222-225).
TruthyOrStored(new, stored) == IF Truthy(new) THEN new ELSE stored

\* `new` where it is not None, else the stored value (lines 218-221, 233).
NotNoneOrStored(new, stored) == IF new /= None THEN new ELSE stored

\* Lines 227-234: the opening hours after the enrichment.
enriched_hours(opening_hours_payload, stored) ==
    NotNoneOrStored(opening_hours_text(opening_hours_payload), stored)

\* Lines 200-240: the row with the fields of the enrichment record.
enriched_lead(lead, google_data) ==
    [lead EXCEPT
        !.google_place_id = TruthyOrStored(google_data.google_place_id, @),
        !.name = TruthyOrStored(google_data.name_google, @),
        !.address = TruthyOrStored(google_data.address_google, @),
        !.phone = TruthyOrStored(google_data.phone_number_google, @),
        !.website = TruthyOrStored(google_data.website_google, @),
        !.google_photo_url = TruthyOrStored(google_data.photo_url_google, @),
        !.google_rating = NotNoneOrStored(google_data.rating_google, @),
        !.google_user_ratings_total =
            NotNoneOrStored(google_data.user_ratings_total_google, @),
        !.google_maps_url = TruthyOrStored(google_data.google_maps_url, @),
        !.google_business_status =
            TruthyOrStored(google_data.business_status_google, @),
        !.google_opening_hours = enriched_hours(google_data.opening_hours_google, @),
        !.categories_text = IF google_data.types_google /= <<>>
                            THEN Join(<<",">>, google_data.types_google) ELSE @]

\* The owner of the lead with this id, 0 when there is no such lead.
owner_of(rows, lead_id) ==
    IF \E i \in 1..Len(rows) : rows[i].id = lead_id
    THEN rows[CHOOSE i \in 1..Len(rows) : rows[i].id = lead_id].user_id
    ELSE 0

\* What is kept of the last request: [op, current_user, lead_id, owner (of
\* the lead of that id when the request came), changed (the
\* table is not as it was), leads (the rows a list request answered with),
\* data (<<the payload>> of an update), google_data (<<the record>> the
\* enrichment client returned), before_lead (<<the row>> an enrich request
\* found)].
LastRequest(op, current_user, lead_id, changed, leads, data, google_data, before_lead) ==
    [op |-> op, current_user |-> current_user, lead_id |-> lead_id,
     owner |-> owner_of(saved_leads, lead_id),
     changed |-> changed, leads |-> leads, data |-> data,
     google_data |-> google_data, before_lead |-> before_lead]

\* The place-details answers of this section; one OK answer has an empty
\* list of opening-hours lines.
LeadDetailsResponses(pid) ==
    IF pid = None
    THEN { [kind |-> "exception", status |-> "", result |-> NoResult] }
    ELSE { [kind |-> "exception", status |-> "", result |-> NoResult],
           [kind |-> "ok", status |-> "OK", result |-> FullResult(pid)],
           [kind |-> "ok", status |-> "OK",
            result |-> [FullResult(pid) EXCEPT !.weekday_text = ListHours(<<>>)]] }

\* Lines 15-95 for one of these payloads, while the next primary key is one
\* of the ids of the URL.
SaveOwnedLead ==
    /\ next_lead_id(saved_leads) <= MaxLeadId
    /\ SaveFrom(OwnedPayloads, MaxOwnedLeads)

\* Lines 97-104: get_saved_leads, newest first.
GetSavedLeads ==
    /\ \E current_user \in Users :
       \E user_leads \in { SelectSeq(saved_leads,
                                     LAMBDA r : r.user_id = current_user) } :
       \E leads_list \in { [i \in 1..Len(user_leads) |->
                               user_leads[Len(user_leads) + 1 - i]] } :
           /\ save_response' = <<SaveAnswer(200, <<>>)>>
           /\ lead_last' = <<LastRequest("list", current_user, 0, FALSE, leads_list,
                                         <<>>, <<>>, <<>>)>>
    /\ UNCHANGED <<normVars, configVars, cache, now, searchVars, enrichVars, geoVars,
                   saved_leads, workers>>

\* Lines 106-151: update_saved_lead; the commit succeeds or raises.
UpdateSavedLead ==
    /\ \E current_user \in Users :
       \E lead_id \in LeadIds :
       \E data \in UpdatePayloads :
       \E lead_to_update \in { owned_lead(saved_leads, lead_id, current_user) } :
       \E commit_ok \in (IF lead_to_update = <<>> \/ update_refusal(data) /= <<>>
                          THEN {TRUE} ELSE BOOLEAN) :
       \E rows \in { IF lead_to_update = <<>> \/ update_refusal(data) /= <<>>
                         \/ ~commit_ok
                      THEN saved_leads
                      ELSE with_row(saved_leads,
                                    updated_lead(lead_to_update[1], data)) } :
           /\ saved_leads' = rows
           /\ save_response' =
                IF lead_to_update = <<>> THEN <<SaveAnswer(404, <<>>)>>
                ELSE IF update_refusal(data) /= <<>> THEN update_refusal(data)
                ELSE IF updated_lead(lead_to_update[1], data) = lead_to_update[1]
                THEN <<SaveAnswer(200, lead_to_update)>>
                ELSE IF commit_ok
                THEN <<SaveAnswer(200, <<updated_lead(lead_to_update[1], data)>>)>>
                ELSE <<SaveAnswer(500, <<>>)>>
           /\ lead_last' = <<LastRequest("update", current_user, lead_id,
                                         rows /= saved_leads, <<>>, <<data>>,
                                         <<>>, <<>>)>>
    /\ UNCHANGED <<normVars, configVars, cache, now, searchVars, enrichVars, geoVars,
                   workers>>

\* Lines 153-168: delete_saved_lead; the commit succeeds or raises.
DeleteSavedLead ==
    /\ \E current_user \in Users :
       \E lead_id \in LeadIds :
       \E lead_to_delete \in { owned_lead(saved_leads, lead_id, current_user) } :
       \E commit_ok \in (IF lead_to_delete = <<>> THEN {TRUE} ELSE BOOLEAN) :
       \E rows \in { IF lead_to_delete = <<>> \/ ~commit_ok
                      THEN saved_leads
                      ELSE without_row(saved_leads, lead_id) } :
           /\ saved_leads' = rows
           /\ save_response' =
                IF lead_to_delete = <<>> THEN <<SaveAnswer(404, <<>>)>>
                ELSE IF commit_ok THEN <<SaveAnswer(200, <<>>)>>
                ELSE <<SaveAnswer(500, <<>>)>>
           /\ lead_last' = <<LastRequest("delete", current_user, lead_id,
                                         rows /= saved_leads, <<>>, <<>>, <<>>, <<>>)>>
    /\ UNCHANGED <<normVars, configVars, cache, now, searchVars, enrichVars, geoVars,
                   workers>>

\* Lines 171-176: enrich_saved_lead_route for a lead id the requester has no
\* lead of.
EnrichLeadNotFound ==
    /\ \E current_user \in Users :
       \E lead_id \in LeadIds :
           /\ owned_lead(saved_leads, lead_id, current_user) = <<>>
           /\ save_response' = <<SaveAnswer(404, <<>>)>>
           /\ lead_last' = <<LastRequest("enrich", current_user, lead_id, FALSE,
                                         <<>>, <<>>, <<>>, <<>>)>>
    /\ UNCHANGED <<normVars, configVars, cache, now, searchVars, enrichVars, geoVars,
                   saved_leads, workers>>

\* Lines 171-258: enrich_saved_lead_route for a lead of the requester, with
\* the answers of the two upstream endpoints; the commit succeeds or raises.
EnrichSavedLead ==
    /\ \E current_user \in Users :
       \E lead_id \in LeadIds :
       \E found \in { owned_lead(saved_leads, lead_id, current_user) } :
           /\ found /= <<>>
           /\ \E saved_lead \in { found[1] } :
              \E requested \in { find_stage(cache.gfind, use_caching, now,
                                    saved_lead.name, saved_lead.address,
                                    saved_lead.latitude, saved_lead.longitude, None,
                                    [kind |-> "exception", status |-> "",
                                     candidates |-> <<>>]).requested } :
              \E find_resp \in (IF requested THEN FindResponses
                                 ELSE { [kind |-> "exception", status |-> "",
                                         candidates |-> <<>>] }) :
              \E asked \in { find_stage(cache.gfind, use_caching, now,
                                saved_lead.name, saved_lead.address,
                                saved_lead.latitude, saved_lead.longitude, None,
                                find_resp).place_id } :
              \E details_resp \in LeadDetailsResponses(asked) :
              \E e \in { enrich_with_google_places(cache, use_caching, api_key, now,
                                saved_lead.name, saved_lead.address,
                                saved_lead.latitude, saved_lead.longitude, None,
                                find_resp, details_resp) } :
              \E after \in { IF ~Truthy(saved_lead.name) \/ e.result = <<>>
                              THEN saved_lead
                              ELSE enriched_lead(saved_lead, e.result[1]) } :
              \E commit_ok \in (IF after = saved_lead THEN {TRUE} ELSE BOOLEAN) :
              \E rows \in { IF commit_ok THEN with_row(saved_leads, after)
                             ELSE saved_leads } :
                  /\ cache' = IF Truthy(saved_lead.name) THEN e.cache ELSE cache
                  /\ saved_leads' = rows
                  /\ save_response' =
                       IF ~Truthy(saved_lead.name) THEN <<SaveAnswer(400, <<>>)>>
                       ELSE IF after = saved_lead THEN <<SaveAnswer(200, <<saved_lead>>)>>
                       ELSE IF commit_ok THEN <<SaveAnswer(200, <<after>>)>>
                       ELSE <<SaveAnswer(500, <<>>)>>
                  /\ lead_last' = <<LastRequest("enrich", current_user, lead_id,
                                                rows /= saved_leads, <<>>, <<>>,
                                                IF Truthy(saved_lead.name)
                                                THEN e.result ELSE <<>>,
                                                <<saved_lead>>)>>
    /\ UNCHANGED <<normVars, configVars, now, searchVars, enrichVars, geoVars,
                   workers>>

NextOwnedLeads ==
    \/ SaveOwnedLead
    \/ GetSavedLeads
    \/ UpdateSavedLead
    \/ DeleteSavedLead
    \/ EnrichLeadNotFound
    \/ EnrichSavedLead

SpecOwnedLeads == InitLeads /\ [][NextOwnedLeads]_vars

(***************************************************************************)
(* Two save requests handled by two workers at the same time: each worker  *)
(* runs save_new_lead in its own database session, so the existence check  *)
(* of one may come before the commit of the other.                         *)
(***************************************************************************)

\* The payloads of the two requests: one venue, named by its OSM id or by its
\* Google place id.
ConcurrentPayloads ==
    { [BasePayload EXCEPT !.name = n, !.google_place_id = x[1], !.osm_id = x[2]] :
        n \in {None, OldName},
        x \in { <<None, <<"node/1">> >>, << <<"G1">>, None>> } }

\* Lines 15-29: the worker takes a request and validates the payload.
WorkerReceive(w) ==
    /\ workers[w].pc = "idle"
    /\ \E current_user \in Users :
       \E data \in ConcurrentPayloads :
           workers' = [workers EXCEPT ![w] =
               IF save_refusal(data) /= <<>>
               THEN [pc |-> "done", current_user |-> current_user,
                     data |-> <<data>>, http |-> save_refusal(data)[1].http]
               ELSE [pc |-> "check", current_user |-> current_user,
                     data |-> <<data>>, http |-> 0]]
    /\ UNCHANGED <<normVars, configVars, cache, now, searchVars, enrichVars, geoVars,
                   saved_leads, save_response, lead_last>>

\* Lines 31-43: the existence check against the committed rows.
WorkerCheck(w) ==
    /\ workers[w].pc = "check"
    /\ \E existing \in { existing_saved_lead(saved_leads, workers[w].current_user,
                                             workers[w].data[1].google_place_id,
                                             workers[w].data[1].osm_id) } :
           /\ workers' = [workers EXCEPT ![w] =
                 IF existing /= <<>>
                 THEN [@ EXCEPT !.pc = "done", !.http = 409]
                 ELSE [@ EXCEPT !.pc = "commit"]]
           /\ save_response' = IF existing /= <<>>
                               THEN <<SaveAnswer(409, existing)>>
                               ELSE save_response
    /\ UNCHANGED <<normVars, configVars, cache, now, searchVars, enrichVars, geoVars,
                   saved_leads, lead_last>>

\* Lines 61-95: the row is added and committed; models.py declares no unique
\* constraint on saved_lead, so the commit is not refused for a duplicate.
WorkerCommit(w) ==
    /\ workers[w].pc = "commit"
    /\ \E new_lead \in { new_saved_lead(saved_leads, workers[w].current_user,
                                         workers[w].data[1]) } :
       \E commit_ok \in (IF violates_not_null(new_lead) THEN {FALSE} ELSE BOOLEAN) :
           IF commit_ok
           THEN /\ saved_leads' = Append(saved_leads, new_lead)
                /\ save_response' = <<SaveAnswer(201, <<new_lead>>)>>
                /\ workers' = [workers EXCEPT ![w] = [@ EXCEPT !.pc = "done",
                                                               !.http = 201]]
           ELSE /\ save_response' = <<SaveAnswer(500, <<>>)>>
                /\ workers' = [workers EXCEPT ![w] = [@ EXCEPT !.pc = "done",
                                                               !.http = 500]]
                /\ UNCHANGED saved_leads
    /\ UNCHANGED <<normVars, configVars, cache, now, searchVars, enrichVars, geoVars,
                   lead_last>>

NextConcurrentSaves ==
    \/ \E w \in WorkerIds : WorkerReceive(w)
    \/ \E w \in WorkerIds : WorkerCheck(w)
    \/ \E w \in WorkerIds : WorkerCommit(w)

SpecConcurrentSaves == InitLeads /\ [][NextConcurrentSaves]_vars

(***************************************************************************)
(* Claims about the normalizer and the score (SpecNormalize).              *)
(***************************************************************************)

\* The seven weights of the completeness score as the specification lists them.
SevenWeightSum(lead) ==
      (IF Truthy(lead.name) /\ lead.name /= UnknownVenue THEN 5 ELSE 0)
    + (IF Truthy(lead.address) THEN 3 ELSE 0)
    + (IF Truthy(lead.phone_number) THEN 2 ELSE 0)
    + (IF Truthy(lead.website) THEN 2 ELSE 0)
    + (IF Truthy(lead.photo_url) THEN 1 ELSE 0)
    + (IF lead.types /= <<>> THEN 1 ELSE 0)
    + (IF Truthy(lead.rating) THEN 1 ELSE 0)

\* C2: the completeness score of every normalized result is the sum of the
\* seven fixed weights (name 5, address 3, phone 2, website 2, photo 1,
\* categories 1, rating 1), so 15 with all seven present and 5 with only a
\* real name.
C2_ScoreIsSevenWeightSum ==
    norm_out /= <<>> =>
        calculate_completeness_score(norm_out[1]) = SevenWeightSum(norm_out[1])

\* The precedence rule: the enrichment value when a record is given and the
\* value is not null, otherwise the value derived from the tags.
Precedence(google_enrichment, k, osm_value) ==
    IF google_enrichment /= <<>> /\ google_enrichment[1][k] /= None
    THEN google_enrichment[1][k] ELSE osm_value

\* C3: every field both sources can supply (name, address, website, phone,
\* categories, opening hours) follows the precedence rule independently; a
\* null enrichment field never hides a value the tags supply.
C3_FieldPrecedence ==
    norm_out /= <<>> =>
        LET r == norm_out[1]
            tags == norm_el[1].tags
        IN /\ r.name = Precedence(norm_g, "name_google", TagNameOrDefault(tags))
           /\ r.address = Precedence(norm_g, "address_google", osm_address(tags))
           /\ r.website = Precedence(norm_g, "website_google",
                                     Or(tags.website, tags.contact_website))
           /\ r.phone_number = Precedence(norm_g, "phone_number_google",
                                          Or(tags.phone, tags.contact_phone))
           /\ r.types = IF norm_g /= <<>> /\ norm_g[1].types_google /= <<>>
                        THEN norm_g[1].types_google ELSE osm_categories(tags)
           /\ r.opening_hours =
                  IF norm_g /= <<>> /\ norm_g[1].opening_hours_google /= NoHours
                  THEN norm_g[1].opening_hours_google
                  ELSE StrHours(tags.opening_hours)

\* C10: every normalized result has a non-null name, which is the literal
\* "Unknown Venue" when the enrichment record gives no name and the element
\* has no name tag, and an OSM identifier made of the element's type and id.
C10_NameAndOsmIdPresent ==
    norm_out /= <<>> =>
        LET r == norm_out[1]
        IN /\ r.name /= None
           /\ (norm_el[1].tags.name = None
                /\ ~Truthy(GoogleField(norm_g, "name_google")))
              => r.name = UnknownVenue
           /\ r.osm_id = <<norm_el[1].type, norm_el[1].id>>
           /\ r.osm_id[1] \in {"node", "way", "relation"}

\* C10 witness: an element without a name tag normalized with an enrichment
\* record that has no name got the placeholder.
C10_Witness ==
    /\ norm_out /= <<>>
    /\ norm_el[1].tags.name = None
    /\ norm_g /= <<>> /\ norm_g[1].name_google = None
    /\ norm_out[1].name = UnknownVenue

(***************************************************************************)
(* Claims about one search request (Spec).                                 *)
(***************************************************************************)

\* The request has been answered with the OK outcome.
AnsweredOK == response /= <<>> /\ response[1].status = "OK"

\* Every filtered element has coordinates (the filter guarantees the name).
AllEnrichable ==
    \A i \in 1..Len(filtered_osm_elements) :
        /\ TruthyNumber(osm_lat_of(filtered_osm_elements[i]))
        /\ TruthyNumber(osm_lon_of(filtered_osm_elements[i]))

\* C1: a search with enrich_google=true over N filtered elements that all
\* have a name and coordinates makes exactly min(N, 5) enrichment attempts,
\* whether the attempts return data or None.
C1_ExactlyMinNFiveAttempts ==
    (/\ AnsweredOK
     /\ req.enrich_google_str = TrueStr
     /\ Len(filtered_osm_elements) <= req.limit
     /\ AllEnrichable)
    => calls.enrich = Min(Len(filtered_osm_elements), google_enrich_attempt_limit)

\* The place source failed: its answer is an HTTP error, a timeout, a network
\* error or a malformed body.
OverpassFailed == overpass_answer /= <<>> /\ overpass_answer[1].kind /= "ok"

\* C5: when the place-source call fails totally the search is answered with
\* status OSM_API_ERROR.
C5_TotalFailureIsUpstreamError ==
    OverpassFailed => response /= <<>> /\ response[1].status = "OSM_API_ERROR"

\* The place source yielded no elements: an empty list upstream, or a caught
\* failure.
OverpassYieldedNothing ==
    /\ overpass_answer /= <<>>
    /\ \/ overpass_answer[1].kind \in OverpassFailureKinds
       \/ overpass_answer[1].kind = "ok" /\ overpass_answer[1].elements = <<>>

C7_OneResultPerFilteredElement ==
    AnsweredOK =>
        /\ Len(response[1].places[1]) = Len(filtered_osm_elements)
        /\ response[1].count = <<Len(filtered_osm_elements)>>
        /\ \A i \in 1..Len(filtered_osm_elements) :
             \E j \in 1..Len(response[1].places[1]) :
                response[1].places[1][j].osm_id =
                    <<filtered_osm_elements[i].type, filtered_osm_elements[i].id>>

\* The position in the filtered input of the element a result was made from.
InputPosition(lead) ==
    CHOOSE i \in 1..Len(filtered_osm_elements) :
        lead.osm_id = <<filtered_osm_elements[i].type, filtered_osm_elements[i].id>>

\* C9: the places list is the stable descending sort of the normalized
\* results by completeness score: the scores do not increase along the list
\* and results of equal score keep the relative order of their elements in
\* the filtered input.
C9_StableDescendingSort ==
    AnsweredOK =>
        LET places == response[1].places[1]
        IN /\ Len(places) = Len(processed_leads)
           /\ \A k \in 1..Len(processed_leads) :
                \E j \in 1..Len(places) : places[j] = processed_leads[k]
           /\ \A i, j \in 1..Len(places) :
                i < j =>
                  /\ calculate_completeness_score(places[i])
                        >= calculate_completeness_score(places[j])
                  /\ calculate_completeness_score(places[i])
                        = calculate_completeness_score(places[j])
                     => InputPosition(places[i]) < InputPosition(places[j])

\* C9 witness: an answer in which the sort moved a result in front of an
\* earlier element's result and kept two results of equal score in input order.
C9_Witness ==
    /\ AnsweredOK
    /\ \E i, j \in 1..Len(response[1].places[1]) :
         /\ i < j
         /\ InputPosition(response[1].places[1][i])
                > InputPosition(response[1].places[1][j])
    /\ \E i, j \in 1..Len(response[1].places[1]) :
         /\ i < j
         /\ calculate_completeness_score(response[1].places[1][i])
                = calculate_completeness_score(response[1].places[1][j])
         /\ InputPosition(response[1].places[1][i])
                < InputPosition(response[1].places[1][j])

(***************************************************************************)
(* Claims about the filter, the resolver and the failure paths of one      *)
(* search request (Spec).                                                  *)
(***************************************************************************)

\* The element has a name tag that is not empty.
HasName(element) == element.tags.name /= None /\ element.tags.name /= <<>>

ElementId(element) == <<element.type, element.id>>

\* The elements the place source answered with.
AnsweredElements ==
    IF overpass_answer /= <<>> /\ overpass_answer[1].kind = "ok"
    THEN overpass_answer[1].elements ELSE <<>>

\* The result was made from an answered element that has a name.
FromNamedElement(lead) ==
    \E j \in 1..Len(AnsweredElements) :
        /\ HasName(AnsweredElements[j])
        /\ lead.osm_id = ElementId(AnsweredElements[j])

\* C11: an element without a name tag (absent or empty) is never enriched or
\* normalized and is not in the response, whatever its other tags; every
\* element with a non-empty name tag passes the filter.
C11_OnlyNamedElementsPass ==
    /\ overpass_answer /= <<>>
         => filtered_osm_elements = SelectSeq(AnsweredElements, HasName)
    /\ \A i \in 1..Len(processed_leads) : FromNamedElement(processed_leads[i])
    /\ calls.enrich <= Len(processed_leads)
    /\ AnsweredOK =>
         \A i \in 1..Len(response[1].places[1]) :
            FromNamedElement(response[1].places[1][i])

\* C11 witness: the answer held a richly tagged element without a name and
\* a named one, and the search was answered with the named one only.
C11_Witness ==
    /\ AnsweredOK
    /\ Len(response[1].places[1]) = 1
    /\ \E j \in 1..Len(AnsweredElements) :
         /\ AnsweredElements[j].tags.name = None
         /\ AnsweredElements[j].tags.shop /= None
         /\ AnsweredElements[j].tags.phone /= None

\* The query term of the request: the parameter, trimmed and case-folded.
TrimmedFoldedQuery == Lower(Strip(Or(raw_request[1].query, <<>>)))

\* C12: the query term is trimmed and case-folded; a non-empty term that is
\* no key of TAG_MAPPING resolves to exactly the one condition
\* ("name", term), and a term that is a key to exactly its table entry.
C12_ResolvedConditions ==
    (raw_request /= <<>> /\ Truthy(raw_request[1].location)) =>
        /\ req.query_term = TrimmedFoldedQuery
        /\ IF \E e \in TAG_MAPPING : e.key = TrimmedFoldedQuery
           THEN \E e \in TAG_MAPPING :
                    /\ e.key = TrimmedFoldedQuery
                    /\ osm_tag_conditions_list = e.conditions
           ELSE TrimmedFoldedQuery /= <<>> =>
                    osm_tag_conditions_list
                        = << << <<"name">>, TrimmedFoldedQuery >> >>

\* C12 witness: the unmapped term " Taco Stand" resolved to the one
\* condition ("name", "taco stand").
C12_Witness ==
    /\ raw_request /= <<>>
    /\ raw_request[1].query = <<" ","T","a","c","o"," ","S","t","a","n","d">>
    /\ osm_tag_conditions_list
         = << << <<"name">>, <<"t","a","c","o"," ","s","t","a","n","d">> >> >>

\* C13: the place source is called only with a non-empty list of conditions;
\* a request left without a condition is answered BAD_REQUEST, and a
\* BAD_REQUEST answer comes before any geocoder or place-source call.
C13_FetchHasConditions ==
    /\ (geo_data /= <<>> \/ overpass_answer /= <<>> \/ calls.overpass > 0)
         => osm_tag_conditions_list /= <<>>
    /\ (raw_request /= <<>> /\ osm_tag_conditions_list = <<>>)
         => response /= <<>> /\ response[1].status = "BAD_REQUEST"
    /\ (response /= <<>> /\ response[1].status = "BAD_REQUEST")
         => calls = NoCalls

\* C13 witness: the place source was asked with the name condition of an
\* unmapped term.
C13_Witness ==
    /\ calls.overpass = 1
    /\ overpass_query_sent /= <<>>
    /\ osm_tag_conditions_list = << << <<"name">>, <<"t","a","c","o">> >> >>

\* sub occurs in s.
Contains(s, sub) ==
    \E i \in 1..(Len(s) - Len(sub) + 1) : SubSeq(s, i, i + Len(sub) - 1) = sub

\* "a,c,b,d" for the geocoder's box (a, b, c, d).
SouthWestNorthEast(box) ==
    box[1] \o <<",">> \o box[3] \o <<",">> \o box[2] \o <<",">> \o box[4]

\* C14: for the geocoder's box (a, b, c, d) the bounding_box_str is
\* "a,c,b,d", and that string is the box of the clauses of the query posted
\* to the place source.
C14_BoundingBoxReordered ==
    (nominatim_answer /= <<>> /\ geo_data /= <<>>) =>
        /\ geo_data[1].bounding_box_str
             = SouthWestNorthEast(nominatim_answer[1].items[1].boundingbox)
        /\ overpass_query_sent /= <<>> =>
             Contains(overpass_query_sent[1],
                      <<"\"](">>
                      \o SouthWestNorthEast(nominatim_answer[1].items[1].boundingbox)
                      \o <<");">>)

\* C14 witness: the geocoder's box (1, 3, 2, 4) gave "1,2,3,4", which was
\* posted to the place source.
C14_Witness ==
    /\ nominatim_answer /= <<>>
    /\ nominatim_answer[1].items /= <<>>
    /\ nominatim_answer[1].items[1].boundingbox = << <<"1">>, <<"3">>, <<"2">>, <<"4">> >>
    /\ geo_data /= <<>>
    /\ geo_data[1].bounding_box_str = <<"1", ",", "2", ",", "3", ",", "4">>
    /\ overpass_query_sent /= <<>>
    /\ Contains(overpass_query_sent[1],
                <<"\"](", "1", ",", "2", ",", "3", ",", "4", ");">>)

\* The geocoder's answer resolves nothing: a network or HTTP failure, no
\* candidate, or a bounding box that is missing or not four values.
GeocoderResolvedNothing ==
    /\ nominatim_answer /= <<>>
    /\ \/ nominatim_answer[1].kind /= "ok"
       \/ nominatim_answer[1].items = <<>>
       \/ Len(nominatim_answer[1].items[1].boundingbox) /= 4

\* C15: when the geocoder cannot resolve the location the search is answered
\* LOCATION_NOT_FOUND with HTTP 200 and no results, and neither the place
\* source nor the enrichment client is called.
C15_LocationNotFound ==
    GeocoderResolvedNothing =>
        /\ response /= <<>>
        /\ response[1].status = "LOCATION_NOT_FOUND"
        /\ response[1].http = 200
        /\ response[1].places = <<>>
        /\ overpass_answer = <<>>
        /\ calls.overpass = 0 /\ calls.enrich = 0
        /\ calls.find = 0 /\ calls.details = 0

\* C15 witness: a box of three values was answered LOCATION_NOT_FOUND.
C15_Witness ==
    /\ nominatim_answer /= <<>>
    /\ nominatim_answer[1].items /= <<>>
    /\ Len(nominatim_answer[1].items[1].boundingbox) = 3
    /\ response /= <<>>
    /\ response[1].status = "LOCATION_NOT_FOUND"

\* C16: a request without a location, or with an empty one, is answered
\* BAD_REQUEST (HTTP 400) with the cache unchanged and no geocoder,
\* place-source or enrichment call.
C16_MissingLocationRejected ==
    (raw_request /= <<>> /\ raw_request[1].location \in {None, <<>>}) =>
        /\ response /= <<>>
        /\ response[1].status = "BAD_REQUEST"
        /\ response[1].http = 400
        /\ calls = NoCalls
        /\ cache = EmptyCache
        /\ nominatim_answer = <<>> /\ overpass_answer = <<>>

\* C16 witness: a request whose location is the empty string was rejected.
C16_Witness ==
    /\ raw_request /= <<>>
    /\ raw_request[1].location = <<>>
    /\ response /= <<>>
    /\ response[1].status = "BAD_REQUEST"

C18_NoRetry ==
    /\ calls.nominatim <= 1
    /\ calls.overpass <= 1
    /\ calls.find <= calls.enrich
    /\ calls.details <= calls.enrich

\* C18 witness: a search in which every enrichment call failed at find-place
\* asked find-place once per call.
C18_Witness ==
    /\ pc = "done"
    /\ calls.nominatim = 1 /\ calls.overpass = 1
    /\ calls.enrich >= 2
    /\ calls.find = calls.enrich
    /\ enriched_count = 0

(***************************************************************************)
(* Claims about the geocoder (SpecGeocode).                                *)
(***************************************************************************)

\* The cache key of a city name: the prefix and the case-folded name without
\* its non-alphanumeric characters.
FoldedAlnumKey(city_name) ==
    <<"nominatim_coords_v2:">> \o FilterAlnum(Lower(city_name))

OneWeek == 7 * 24 * 3600

\* The entries that were live under the key of the last call when it began.
LiveGeoEntries ==
    { e \in geo_last[1].prior :
        /\ e.key = FoldedAlnumKey(geo_last[1].city_name)
        /\ geo_last[1].at < e.expires }

\* C19: with the cache in use, a geocoder call whose case-folded,
\* alphanumeric-only key has a live entry returns that entry without an
\* external request; a call on a miss issues exactly one external request,
\* stores a resolved Location under that key for one week and writes
\* nothing when nothing was resolved.
C19_GeocoderCache ==
    (geo_last /= <<>> /\ use_caching) =>
        IF LiveGeoEntries /= {}
        THEN /\ geo_last[1].requested = 0
             /\ \E e \in LiveGeoEntries : geo_last[1].result = <<e.value>>
             /\ cache.nominatim = geo_last[1].prior
        ELSE /\ geo_last[1].requested = 1
             /\ IF geo_last[1].result /= <<>>
                THEN [key |-> FoldedAlnumKey(geo_last[1].city_name),
                      value |-> geo_last[1].result[1],
                      expires |-> geo_last[1].at + OneWeek] \in cache.nominatim
                ELSE cache.nominatim = geo_last[1].prior

\* C19 witness: "troy ny" was answered from the entry stored for a name of
\* the same key, without an external request.
C19_Witness ==
    /\ geo_last /= <<>>
    /\ use_caching
    /\ geo_last[1].city_name = <<"t","r","o","y"," ","n","y">>
    /\ geo_last[1].requested = 0
    /\ geo_last[1].result /= <<>>
    /\ geo_last[1].at > 0
    /\ cache.nominatim = geo_last[1].prior

(***************************************************************************)
(* Claims about the response body, the enrichment flag and the default     *)
(* mapping of one search request (Spec).                                   *)
(***************************************************************************)

\* C23: every response carries a status, a list of results and a count, and
\* the count is the length of the list (0 and the empty list on the
\* zero-results and location-not-found outcomes).
C23_StatusPlacesCount ==
    response /= <<>> =>
        /\ response[1].status \in {"OK", "ZERO_RESULTS", "LOCATION_NOT_FOUND",
                                   "BAD_REQUEST", "OSM_API_ERROR"}
        /\ response[1].places /= <<>>
        /\ response[1].count /= <<>>
        /\ response[1].count[1] = Len(response[1].places[1])

\* No enrichment call was made, no find-place or place-details request was
\* sent and the enrichment cache is as it was, and every result of the
\* response has a null google_place_id, photo_url, rating and google_maps_url.
SearchWithoutEnrichment ==
    /\ calls.enrich = 0 /\ calls.find = 0 /\ calls.details = 0
    /\ cache.gfind = {} /\ cache.gdetails = {}
    /\ \A i \in 1..Len(processed_leads) :
          /\ processed_leads[i].google_place_id = None
          /\ processed_leads[i].photo_url = None
          /\ processed_leads[i].rating = None
          /\ processed_leads[i].google_maps_url = None
    /\ AnsweredOK =>
          \A i \in 1..Len(response[1].places[1]) :
              /\ response[1].places[1][i].google_place_id = None
              /\ response[1].places[1][i].photo_url = None
              /\ response[1].places[1][i].rating = None
              /\ response[1].places[1][i].google_maps_url = None

\* C25: when the enrichment flag is absent or anything other than 'true',
\* the search makes no enrichment call and every result has a null
\* google_place_id, photo_url, rating and google_maps_url.
C25_NoEnrichmentUnlessTrue ==
    (raw_request /= <<>> /\ raw_request[1].enrich_google /= TrueStr)
        => SearchWithoutEnrichment

\* The flag of the request is absent or, in lower case, other than 'true'.
FlagNotTrueInAnyCase ==
    \/ raw_request[1].enrich_google = None
    \/ Lower(raw_request[1].enrich_google) /= <<"t","r","u","e">>

\* C25 as amended: when the enrichment flag is absent or, compared without
\* regard to letter case, anything other than 'true', the search makes no
\* enrichment call and every result has a null google_place_id, photo_url,
\* rating and google_maps_url.
C25_NoEnrichmentUnlessTrueAnyCase ==
    (raw_request /= <<>> /\ FlagNotTrueInAnyCase) => SearchWithoutEnrichment

\* C25 witness: a request with the flag 'false' was answered OK with results
\* and without an enrichment call.
C25_Witness ==
    /\ raw_request /= <<>>
    /\ raw_request[1].enrich_google = <<"f","a","l","s","e">>
    /\ AnsweredOK
    /\ Len(response[1].places[1]) >= 2
    /\ calls.enrich = 0

\* The location of the request is given and not empty.
LocationGiven ==
    raw_request[1].location /= None /\ raw_request[1].location /= <<>>

\* The query of the request is absent, empty or blank.
QueryEmpty ==
    \/ raw_request[1].query = None
    \/ \A i \in 1..Len(raw_request[1].query) : raw_request[1].query[i] = " "

\* C29: every query term resolves to at least one condition, the only
\* BAD_REQUEST answer is the one for a missing location, and an empty query
\* with a location goes on to the geocoder with the default conditions
\* (amenity=restaurant, shop=*).
C29_EmptyQueryUsesDefault ==
    raw_request /= <<>> =>
        /\ (response /= <<>> /\ response[1].status = "BAD_REQUEST")
              => ~LocationGiven
        /\ LocationGiven =>
              /\ osm_tag_conditions_list /= <<>>
              /\ pc = "geocode" \/ calls.nominatim = 1 \/ nominatim_answer /= <<>>
                    \/ geo_data /= <<>> \/ response /= <<>>
        /\ (LocationGiven /\ QueryEmpty) =>
              osm_tag_conditions_list
                  = << << <<"amenity">>, <<"restaurant">> >>,
                       << <<"shop">>, <<"*">> >> >>

\* C29 witness: a request with an empty query and a location asked the place
\* source with the default conditions.
C29_Witness ==
    /\ raw_request /= <<>>
    /\ raw_request[1].query = <<>>
    /\ LocationGiven
    /\ calls.overpass = 1
    /\ osm_tag_conditions_list
          = << << <<"amenity">>, <<"restaurant">> >>, << <<"shop">>, <<"*">> >> >>

(***************************************************************************)
(* Claims about the limit parameter (SpecLimit).                           *)
(***************************************************************************)

DecimalDigits == <<"0", "1", "2", "3", "4", "5", "6", "7", "8", "9">>

RECURSIVE TenTo(_)
TenTo(k) == IF k = 0 THEN 1 ELSE 10 * TenTo(k - 1)

\* The text `t` is a decimal spelling of the integer `n`: blanks around it,
\* an optional sign, and the digits of |n|, leading zeros allowed.
Spells(t, n) ==
    LET trimmed == Strip(t)
        signed == trimmed /= <<>> /\ Head(trimmed) \in {"-", "+"}
        body == IF signed THEN Tail(trimmed) ELSE trimmed
        magnitude == IF n < 0 THEN 0 - n ELSE n
    IN /\ body /= <<>>
       /\ (n < 0) => (signed /\ Head(trimmed) = "-")
       /\ (n > 0 /\ signed) => Head(trimmed) = "+"
       /\ \A i \in 1..Len(body) :
             body[Len(body) + 1 - i] =
                 DecimalDigits[((magnitude \div TenTo(i - 1)) % 10) + 1]
       /\ magnitude < TenTo(Len(body))

\* The integers the limit text of the request spells (none or one).
RequestedLimits ==
    IF raw_request[1].limit = None THEN {}
    ELSE { n \in (0 - TenTo(MaxLimitLen))..TenTo(MaxLimitLen) :
             Spells(raw_request[1].limit, n) }

\* C24: the limit in use is an integer in 1..500: a requested limit inside
\* the range is used as given, and a missing, non-integer, non-positive or
\* too large one is replaced by 50.
C24_LimitInRange ==
    raw_request /= <<>> =>
        /\ req.limit \in 1..500
        /\ \E requested \in { RequestedLimits \cap 1..500 } :
             IF requested /= {}
             THEN req.limit \in requested
             ELSE req.limit = 50

\* C24 witness: the requested limit 500 is used as given.
C24_Witness ==
    /\ raw_request /= <<>>
    /\ raw_request[1].limit = <<"5", "0", "0">>
    /\ req.limit = 500
    /\ pc = "geocode"

(***************************************************************************)
(* Claims about the enrichment client (SpecEnrich).                        *)
(***************************************************************************)

\* The last call resolved to a place whose most recent details request failed
\* in one of the ways `outcomes`.
AfterFailedLookup(outcomes) ==
    /\ enr_last /= <<>>
    /\ enr_last[1].place_id /= None
    /\ enr_last[1].prior /= <<>>
    /\ enr_last[1].prior[1].outcome \in outcomes

\* The negative-cache window of the failure before the last call is open.
WithinNegativeWindow ==
    enr_last[1].at < enr_last[1].prior[1].at + NEGATIVE_CACHE_TIMEOUT

\* What C4 says of the last call: no details request and None inside the
\* window, a details request once it is over.
NegativeCacheObserved ==
    IF WithinNegativeWindow
    THEN ~enr_last[1].details_requested /\ enr_last[1].returned_none
    ELSE enr_last[1].details_requested

\* C4: after a details lookup for place id P fails in any way, every call
\* that resolves to P within 300 s issues no details request and returns
\* None, and the first call after 300 s issues the details request again.
C4_FailedLookupNegativeCached ==
    AfterFailedLookup({"exception", "status"}) => NegativeCacheObserved

\* C4 as amended: after a details lookup for place id P is answered with a
\* status other than OK while the cache is in use, every call that resolves
\* to P within 300 s issues no details request and returns None, and the
\* first call after 300 s issues the details request again.
C4_NonOkStatusNegativeCached ==
    (AfterFailedLookup({"status"}) /\ use_caching) => NegativeCacheObserved

\* C4 witness: a call inside the window of a non-OK answer for its place
\* issued no details request and returned None.
C4_Witness ==
    /\ AfterFailedLookup({"status"})
    /\ use_caching
    /\ WithinNegativeWindow
    /\ enr_last[1].at > enr_last[1].prior[1].at
    /\ ~enr_last[1].details_requested
    /\ enr_last[1].returned_none

\* The find-place key of the venue of the last call with the address "Troy":
\* the name case-folded, trimmed and with blanks as underscores, the
\* address likewise, and the coordinates rounded to three decimals.
NormalizedVenueKey ==
    <<"gfind_pid_v2">> \o <<":">>
        \o Replace(Strip(Lower(enr_last[1].venue.business_name)), " ", <<"_">>)
        \o <<":">> \o <<"t","r","o","y">>
        \o <<":">> \o <<ToString((enr_last[1].venue.latitude[1] + 5) \div 10)>>
        \o <<":">> \o <<ToString((enr_last[1].venue.longitude[1] + 5) \div 10)>>

OneDay == 24 * 3600

\* The find-place entries that were live under the key of the last call
\* when it began.
LiveFindEntries ==
    { e \in enr_last[1].prior_find :
        /\ e.key = NormalizedVenueKey
        /\ enr_last[1].at < e.expires }

\* The last call had to look the venue up: the cache is in use, the API key
\* is configured and the caller gave no place id.
LookedUpByKey ==
    /\ enr_last /= <<>>
    /\ use_caching
    /\ Truthy(api_key)
    /\ enr_last[1].known_place_id = None

\* C20: a call whose normalized (name, address, rounded coordinates) key has
\* a live find-place entry P uses P and issues no find-place request; a
\* lookup that resolves the key to P caches P under it for 24 hours; a
\* lookup that finds no candidate returns None and caches nothing.
C20_FindPlaceCache ==
    LookedUpByKey =>
        IF LiveFindEntries /= {}
        THEN /\ ~enr_last[1].find_requested
             /\ \E e \in LiveFindEntries : enr_last[1].place_id = e.value
             /\ cache.gfind = enr_last[1].prior_find
        ELSE /\ enr_last[1].find_requested
             /\ IF enr_last[1].place_id /= None
                THEN [key |-> NormalizedVenueKey,
                      value |-> enr_last[1].place_id,
                      expires |-> enr_last[1].at + OneDay] \in cache.gfind
                ELSE /\ enr_last[1].returned_none
                     /\ ~enr_last[1].details_requested
                     /\ cache.gfind = enr_last[1].prior_find

\* C20 witness: a later call for the venue, spelled "OLD " and located a
\* little away, was answered from the find-place entry without a find-place
\* request.
C20_Witness ==
    /\ LookedUpByKey
    /\ enr_last[1].venue.business_name = <<"O","L","D"," ">>
    /\ enr_last[1].at > 0
    /\ LiveFindEntries /= {}
    /\ ~enr_last[1].find_requested
    /\ enr_last[1].place_id \in PlaceIds

SixHours == 6 * 3600
FiveMinutes == 5 * 60

\* The entries of the details cache that the last call wrote.
WrittenDetailsEntries == cache.gdetails \ enr_last[1].prior_details

\* The key of the details entry of the place id of the last call.
DetailsKeyOfLastCall == <<"gdetails_v2:">> \o enr_last[1].place_id

\* C21: with the cache in use, the details stage writes the 'failed'
\* sentinel (300 s) exactly when the details upstream answers with a non-OK
\* status, writes the normalized record (6 h) on an OK answer, and a call
\* whose find-place or details request raised returns None and leaves the
\* details cache unchanged.
C21_DetailsCacheWrites ==
    (enr_last /= <<>> /\ use_caching /\ Truthy(api_key)) =>
        /\ enr_last[1].details_answer = <<"status">> =>
              /\ enr_last[1].returned_none
              /\ \E e \in cache.gdetails :
                    /\ e.key = DetailsKeyOfLastCall
                    /\ Truthy(e.value.error)
                    /\ e.expires = enr_last[1].at + FiveMinutes
        /\ enr_last[1].details_answer /= <<"status">> =>
              \A e \in WrittenDetailsEntries : ~Truthy(e.value.error)
        /\ enr_last[1].details_answer = <<"ok">> =>
              /\ enr_last[1].result /= <<>>
              /\ \E e \in cache.gdetails :
                    /\ e.key = DetailsKeyOfLastCall
                    /\ ~Truthy(e.value.error)
                    /\ e.value.details = enr_last[1].result
                    /\ e.expires = enr_last[1].at + SixHours
        /\ (\/ enr_last[1].details_answer = <<"exception">>
            \/ enr_last[1].find_answer = <<"exception">>) =>
              /\ enr_last[1].returned_none
              /\ cache.gdetails = enr_last[1].prior_details

\* C21 witness: a call stored the record of an OK details answer over an
\* entry the cache held before.
C21_Witness ==
    /\ enr_last /= <<>>
    /\ use_caching
    /\ Truthy(api_key)
    /\ enr_last[1].details_answer = <<"ok">>
    /\ enr_last[1].prior_details /= {}
    /\ \E e \in WrittenDetailsEntries :
          /\ e.key = DetailsKeyOfLastCall
          /\ e.expires = enr_last[1].at + SixHours

(***************************************************************************)
(* Claims about saved leads (SpecLeads).                                   *)
(***************************************************************************)

\* C8: after any sequence of save requests the table holds at most one row
\* of an owner for any given external id (google_place_id or osm_id).
C8_OneLeadPerOwnerAndExternalId ==
    \A i, j \in 1..Len(saved_leads) :
        (i /= j /\ saved_leads[i].user_id = saved_leads[j].user_id) =>
            /\ ~(/\ saved_leads[i].google_place_id /= None
                 /\ saved_leads[i].google_place_id = saved_leads[j].google_place_id)
            /\ ~(/\ saved_leads[i].osm_id /= None
                 /\ saved_leads[i].osm_id = saved_leads[j].osm_id)

(***************************************************************************)
(* Claims about the requests of two users on their leads (SpecOwnedLeads). *)
(***************************************************************************)

SevenStatuses ==
    { <<"New">>, <<"Contacted">>, <<"Followed Up">>, <<"Interested">>,
      <<"Booked">>, <<"Not Interested">>, <<"Pending">> }

\* The last request was an update whose payload has a status outside the
\* seven.
UpdateWithInvalidStatus ==
    /\ lead_last /= <<>>
    /\ lead_last[1].op = "update"
    /\ lead_last[1].data[1].user_status /= Absent
    /\ lead_last[1].data[1].user_status \notin SevenStatuses

OnLeadOfAnotherUser ==
    /\ lead_last /= <<>>
    /\ lead_last[1].op \in {"update", "delete", "enrich"}
    /\ lead_last[1].owner /= 0
    /\ lead_last[1].owner /= lead_last[1].current_user

\* C27: an update, delete or enrich request for a lead of another user is
\* answered 404 and changes no stored lead, and a list request answers with
\* the requester's leads and no others.
C27_OwnerIsolation ==
    /\ OnLeadOfAnotherUser =>
         /\ save_response[1].http = 404
         /\ ~lead_last[1].changed
    /\ (lead_last /= <<>> /\ lead_last[1].op = "list") =>
         /\ \A i \in 1..Len(lead_last[1].leads) :
               lead_last[1].leads[i].user_id = lead_last[1].current_user
         /\ \A i \in 1..Len(saved_leads) :
               saved_leads[i].user_id = lead_last[1].current_user
                   => \E j \in 1..Len(lead_last[1].leads) :
                          lead_last[1].leads[j] = saved_leads[i]

\* C27 witness: a user's update with a valid status for the lead of the other
\* user was answered 404, with both users having a lead.
C27_Witness ==
    /\ OnLeadOfAnotherUser
    /\ lead_last[1].op = "update"
    /\ lead_last[1].data[1].user_status = <<"Booked">>
    /\ save_response[1].http = 404
    /\ Len(saved_leads) = 2
    /\ saved_leads[1].user_id /= saved_leads[2].user_id

\* The stored value is neither null nor empty.
Filled(value) == value /= None /\ value /= <<>>

\* The text columns of a lead (the coordinates are compared as they are).
LeadColumns ==
    {"name", "google_place_id", "osm_id", "address", "phone", "website", "categories_text", "google_photo_url", "google_rating",
     "google_user_ratings_total", "google_maps_url", "google_opening_hours",
     "google_business_status", "user_status", "user_notes"}

\* The lead of the last enrich request as it is stored now.
LeadAfterEnrich ==
    saved_leads[CHOOSE i \in 1..Len(saved_leads) :
                    saved_leads[i].id = lead_last[1].lead_id]

\* C30: an enrich request leaves user_status, user_notes, osm_id, latitude,
\* longitude and user_id of the lead as they were, replaces no stored value
\* by null or an empty value, leaves the lead unchanged when the enrichment
\* client returned None, and applied a second time with the same record
\* changes nothing.
C30_EnrichKeepsStoredValues ==
    (lead_last /= <<>> /\ lead_last[1].op = "enrich"
         /\ lead_last[1].before_lead /= <<>>) =>
        /\ \A c \in {"user_status", "user_notes", "osm_id", "latitude",
                     "longitude", "user_id"} :
              LeadAfterEnrich[c] = lead_last[1].before_lead[1][c]
        /\ \A c \in LeadColumns :
              Filled(lead_last[1].before_lead[1][c]) => Filled(LeadAfterEnrich[c])
        /\ lead_last[1].google_data = <<>> =>
              /\ ~lead_last[1].changed
              /\ LeadAfterEnrich = lead_last[1].before_lead[1]
        /\ lead_last[1].google_data /= <<>> =>
              enriched_lead(enriched_lead(lead_last[1].before_lead[1],
                                          lead_last[1].google_data[1]),
                            lead_last[1].google_data[1])
                  = enriched_lead(lead_last[1].before_lead[1],
                                  lead_last[1].google_data[1])

(***************************************************************************)
(* Claims about concurrent save requests (SpecConcurrentSaves).            *)
(***************************************************************************)

\* The two workers handled requests of one owner for one external id.
SameOwnerAndExternalId ==
    /\ workers[1].data /= <<>> /\ workers[2].data /= <<>>
    /\ workers[1].current_user = workers[2].current_user
    /\ workers[1].data[1].google_place_id = workers[2].data[1].google_place_id
    /\ workers[1].data[1].osm_id = workers[2].data[1].osm_id

\* C28: two concurrent save requests of one owner for one external id never
\* both succeed, and the table never holds two rows of an owner with the
\* same external id.
C28_ConcurrentSavesOneRow ==
    /\ SameOwnerAndExternalId => ~(workers[1].http = 201 /\ workers[2].http = 201)
    /\ \A i, j \in 1..Len(saved_leads) :
          (i /= j /\ saved_leads[i].user_id = saved_leads[j].user_id) =>
              /\ saved_leads[i].google_place_id /= None
                    => saved_leads[i].google_place_id /= saved_leads[j].google_place_id
              /\ saved_leads[i].osm_id /= None
                    => saved_leads[i].osm_id /= saved_leads[j].osm_id

(***************************************************************************)
(* Claims about search requests against a deterministic geocoder           *)
(* (SpecDeterministic).                                                    *)
(***************************************************************************)

\* C22: against a deterministic upstream, every search request handled with
\* the shared cache has the outcome it has with caching disabled.
C22_CacheNeverChangesOutcome ==
    geo_last /= <<>> => geo_last[1].outcome = geo_last[1].outcome_uncached

====
